---- MODULE Spec2Model ----
(***************************************************************************)
(* Dynamic route scoring and selection engine of smart-convoy:             *)
(*   src/backend/dynamic_route_optimized.py  (the FastAPI engine)          *)
(*   src/backend/core/dynamic_router.py      (the engine the routers call) *)
(*                                                                         *)
(* Representation.  A coordinate is a position on one meridian, held as an *)
(* integer number of metres north of a reference point; on a meridian      *)
(* haversine_km is R * |dphi|, so the distance of two positions in metres  *)
(* is the absolute difference.  Python lists are sequences and Python      *)
(* index i is element i+1.  An Optional value is a sequence of length 0    *)
(* or 1, except for strings, where None is the string "None".  Scores are  *)
(* held in units of 0.0001 (the epsilon of the cost model) and durations   *)
(* in fifteenths of a second, so dist_m * 0.01 and total_dist_m / 15.0     *)
(* are exact.  Time is in seconds.                                         *)
(***************************************************************************)
EXTENDS Integers, Sequences, FiniteSets, TLC

VARIABLES
    called,           \* name of the last function applied ("" before any)
    now,              \* time.time(), in seconds since the process started
    \* sample_route_points called on its own
    densified,        \* the argument `densified`
    max_samples,      \* the argument `max_samples`
    sampled,          \* the returned list
    \* densify_path called on its own (on route_coords, into densified)
    spacing_m,        \* the argument `sample_m`
    \* cache_get / cache_set called on a cache of their own
    cache,            \* the Dict[str, CacheEntry] handed to them
    stored,           \* per key, what the last cache_set call was given and when
    arg_key,          \* the key of the last cache or weather call
    ret,              \* what the last cache or weather call returned
    \* module state of dynamic_route_optimized.py
    OPENWEATHER_KEY,  \* whether the weather credentials are configured
    GOOGLE_API_KEY,   \* whether the elevation credentials are configured
    weather_cache,    \* Dict[str, CacheEntry]
    elevation_cache,  \* Dict[str, CacheEntry]
    RISK_ZONES,       \* List[Dict]: the rows of risk_zones.csv loaded at import
    SAMPLE_DISTANCE_M,      \* float(os.getenv("SAMPLE_DISTANCE_M", "500"))
    CLOSURE_RADIUS_M,       \* float(os.getenv("CLOSURE_RADIUS_KM", "1.0")), in metres
    WEATHER_CACHE_MINUTES,  \* float(os.getenv("WEATHER_CACHE_MINUTES", "5"))
    \* the world outside: the providers
    wx,               \* the weather of the day, which the weather provider reports
    terrain,          \* the terrain, which the elevation provider reports
    eresp,            \* how the elevation provider answers: "OK", "DENIED", HttpError
    \* score_route_option called on its own
    route_coords,     \* the argument `route_coords`
    closures,         \* the argument `closures`
    sc,               \* the returned dict (<<>> before the call)
    \* one request to the engine
    start_lat,        \* the argument `start_lat`
    end_lat,          \* the argument `end_lat`
    closure_points,   \* the argument `closure_points`, split at ";"
    fast,             \* the argument `fast` of dynamic_reroute_json
    osrm,             \* the routing provider's answers to the engine's requests
    scored_options,   \* the local `scored_options` before it is sorted
    response,         \* what the engine returned (<<>> before the call)
    \* the call-counting stub providers of the lookups
    upstream,         \* number of upstream requests the last lookup issued
    lookup_at,        \* per weather key, time of the latest lookup (-1: none)
    fetch_at,         \* per weather key, time the provider last answered (-1: none)
    prev_lookup,      \* lookup_at of the last call's key, before the call
    prev_fetch,       \* fetch_at of the last call's key, before the call
    elev_seen,        \* elevation keys requested from the provider so far
    known,            \* whether every key of the last elevation call was in elev_seen
    \* worker threads of the server, each running fetch_weather for a request
    pc,               \* per thread, the statement it is about to execute
    frame,            \* per thread, the locals cache_key, entry and data
    \* the websocket endpoint /ws
    conns,            \* ws_manager.conns: List[WebSocket]
    ws_pc,            \* per websocket, where its websocket_endpoint coroutine is
    ws_idx,           \* per websocket, the local `idx` of its coroutine
    \* one invocation of an engine, one statement at a time
    run               \* the invocation's position, locals and request counts

vars == <<called, now, densified, max_samples, sampled, cache, stored, arg_key,
          ret, OPENWEATHER_KEY, GOOGLE_API_KEY, weather_cache, elevation_cache,
          upstream, lookup_at, fetch_at, prev_lookup, prev_fetch, elev_seen,
          known, pc, frame, RISK_ZONES, wx, terrain, eresp, route_coords,
          closures, sc, start_lat, end_lat, closure_points, fast, osrm,
          scored_options, response, spacing_m, SAMPLE_DISTANCE_M,
          CLOSURE_RADIUS_M, WEATHER_CACHE_MINUTES, conns, ws_pc, ws_idx, run>>

sampleVars == <<densified, max_samples, sampled, spacing_m>>
cacheVars  == <<cache, stored>>
callVars   == <<arg_key, ret>>
configVars == <<OPENWEATHER_KEY, GOOGLE_API_KEY, RISK_ZONES, SAMPLE_DISTANCE_M,
                CLOSURE_RADIUS_M, WEATHER_CACHE_MINUTES>>
worldVars  == <<wx, terrain, eresp>>
scoreVars  == <<route_coords, closures, sc>>
engineVars == <<start_lat, end_lat, closure_points, fast, osrm, scored_options,
                response>>
moduleVars == <<weather_cache, elevation_cache>>
stubVars   == <<upstream, lookup_at, fetch_at, prev_lookup, prev_fetch,
                elev_seen, known>>
threadVars == <<pc, frame>>
wsVars     == <<conns, ws_pc, ws_idx>>
runVars    == <<run>>

(***************************************************************************)
(* Bounds of the model                                                     *)
(***************************************************************************)
MaxPathLen == 6       \* longest path handed to sample_route_points alone
MaxSampleArg == 3     \* largest max_samples handed to sample_route_points alone
MaxTicks == 5         \* the clock stops after this many ticks
NumThreads == 2       \* worker threads serving requests at the same time
MaxDensifyLen == 3    \* longest path handed to densify_path alone
NumSessions == 3      \* websockets that connect to /ws
WsRouteLen == 3       \* longest route the engine hands to a websocket's loop
MaxRunRoutes == 2     \* most routes in one answer of the routing provider
MaxRunSegments == 2   \* most segments of a candidate's densified path

(***************************************************************************)
(* Program constants                                                       *)
(***************************************************************************)
WeatherTTL == 300     \* cache_set(weather_cache, cache_key, data, ttl=300)
KeyGridM == 1112      \* f"{lat:.2f}": 0.01 degree of latitude, in metres
ElevBatchSize == 50   \* batch_size = 50
FallbackSteps == 50   \* steps = 50
CruiseSpeed == 15     \* est_duration_s = max(1.0, total_dist_m / 15.0)
DefaultSampleDistanceM == 500     \* os.getenv("SAMPLE_DISTANCE_M", "500")
DefaultClosureRadiusM == 1000     \* os.getenv("CLOSURE_RADIUS_KM", "1.0"), in metres
DefaultWeatherCacheMinutes == 5   \* os.getenv("WEATHER_CACHE_MINUTES", "5")
MAX_SAMPLES == 10           \* sample_route_points(densified, max_samples=10)
ScoreUnit == 10000          \* score units in 1.0: the epsilon 0.0001 is one unit
AlternativeOffsets == 4     \* [(0.3, 0), (-0.3, 0), (0, 0.3), (0, -0.3)]

(***************************************************************************)
(* Python helpers                                                          *)
(***************************************************************************)
None == "None"

Range(s) == {s[i] : i \in DOMAIN s}

Abs(x) == IF x < 0 THEN -x ELSE x

Max(a, b) == IF a >= b THEN a ELSE b

\* s[i] with Python's 0-based index
At(s, i) == s[i + 1]

\* s[-1]
Last(s) == s[Len(s)]

(***************************************************************************)
(* Python dict: a function whose domain is the set of keys present         *)
(***************************************************************************)
EmptyDict == <<>>

DictSet(d, k, v) == [x \in (DOMAIN d) \cup {k} |-> IF x = k THEN v ELSE d[x]]

DictDel(d, k) == [x \in (DOMAIN d) \ {k} |-> d[x]]

(***************************************************************************)
(* Simple in-memory cache with TTL                                         *)
(***************************************************************************)
\* CacheEntry.__init__ at time t
CacheEntry(data, ttl_seconds, t) ==
    [data |-> data, created_at |-> t, ttl |-> ttl_seconds]

is_expired_at_ttl(entry, t) == t - entry.created_at >= entry.ttl

is_expired(entry, t) == t - entry.created_at > entry.ttl

\* cache_get at time t: the returned value and the cache it leaves
cache_get(c, key, t) ==
    IF key \in DOMAIN c
        THEN LET entry == c[key]
             IN  IF ~is_expired(entry, t)
                     THEN [ret |-> entry.data, cache |-> c]
                     ELSE [ret |-> None, cache |-> DictDel(c, key)]
        ELSE [ret |-> None, cache |-> c]

\* cache_set at time t: the cache it leaves
cache_set(c, key, data, ttl, t) == DictSet(c, key, CacheEntry(data, ttl, t))

(***************************************************************************)
(* Geodesy and the path densifier                                          *)
(***************************************************************************)
\* haversine_km(...) * 1000.0 of two positions on the meridian
haversine_m(a, b) == Abs(a - b)

\* interpolate_point with t = num / den, to the metre
interpolate_point(a, b, num, den) == a + (((b - a) * num) \div den)

\* a densifier that inserts floor(length/spacing) points and no midpoint
densify_segment_floor(latlon, i, sample_m) ==
    <<At(latlon, i)>> \o
        [st \in 1..(haversine_m(At(latlon, i), At(latlon, i + 1)) \div sample_m) |->
            interpolate_point(At(latlon, i), At(latlon, i + 1), st,
                (haversine_m(At(latlon, i), At(latlon, i + 1)) \div sample_m) + 1)]

\* the points densify_path puts out for the segment that starts at index i
densify_segment(latlon, i, sample_m) ==
    LET a == At(latlon, i)
        b == At(latlon, i + 1)
        seg_m == haversine_m(a, b)
        steps == Max(1, seg_m \div sample_m)
    IN  IF seg_m <= 0
            THEN <<a>>
            ELSE <<a>> \o [st \in 1..steps |-> interpolate_point(a, b, st, steps + 1)]

\* the points of segments lo..hi, in order (the loop over the segments)
RECURSIVE densify_from(_, _, _, _)
densify_from(latlon, lo, hi, sample_m) ==
    IF lo = hi
        THEN densify_segment(latlon, lo, sample_m)
        ELSE densify_from(latlon, lo, (lo + hi) \div 2, sample_m)
             \o densify_from(latlon, ((lo + hi) \div 2) + 1, hi, sample_m)

\* a densifier that leaves out the closing out.append(latlon[-1])
densify_path_open(latlon, sample_m) ==
    IF Len(latlon) <= 1
        THEN <<>>
        ELSE densify_from(latlon, 0, Len(latlon) - 2, sample_m)

densify_path(latlon, sample_m) ==
    IF Len(latlon) = 0
        THEN <<>>
        ELSE (IF Len(latlon) = 1
                  THEN <<>>
                  ELSE densify_from(latlon, 0, Len(latlon) - 2, sample_m))
             \o <<Last(latlon)>>

(***************************************************************************)
(* Path sampler                                                            *)
(***************************************************************************)
\* range(0, n, step) as the sequence of its indices
PyRange(n, step) == [k \in 1..(((n - 1) \div step) + 1) |-> (k - 1) * step]

sample_route_points(path, maxs) ==
    IF Len(path) <= maxs
        THEN path
        ELSE LET step == Len(path) \div maxs
                 idx  == PyRange(Len(path), step)
                 smp  == [k \in DOMAIN idx |-> At(path, idx[k])]
             IN  IF Last(path) \notin Range(smp)
                     THEN Append(smp, Last(path))
                     ELSE smp

(***************************************************************************)
(* Weather and elevation lookups                                           *)
(***************************************************************************)
\* f"{lat:.2f},{lon:.2f}": the cell of the 0.01 degree grid nearest to lat
cache_key(lat) == (2 * lat + KeyGridM) \div (2 * KeyGridM)

\* What requests.get(...).json() of the weather provider comes to: a payload
\* (named by its condition class), or an exception (timeout, network error,
\* HTTP error status, invalid JSON).
HttpError == "HttpError"

\* a fetch_weather that never consults the cache
fetch_weather_uncached(wc, lat, t, has_key, resp) ==
    IF ~has_key
        THEN [ret |-> None, cache |-> wc, upstream |-> 0]
        ELSE IF resp = HttpError
                 THEN [ret |-> None, cache |-> wc, upstream |-> 1]
                 ELSE [ret |-> resp,
                       cache |-> cache_set(wc, cache_key(lat), resp, WeatherTTL, t),
                       upstream |-> 1]

\* a fetch_weather that takes the worst when the provider does not answer
fetch_weather_fail_closed(wc, lat, t, has_key, resp) ==
    IF ~has_key \/ resp = HttpError
        THEN [ret |-> "thunderstorm", cache |-> wc, upstream |-> 0]
        ELSE [ret |-> resp,
              cache |-> cache_set(wc, cache_key(lat), resp, WeatherTTL, t),
              upstream |-> 1]

\* fetch_weather at time t with the provider answering resp: the returned
\* data, the weather cache it leaves and the number of upstream requests
fetch_weather(wc, lat, t, has_key, resp) ==
    IF ~has_key
        THEN [ret |-> None, cache |-> wc, upstream |-> 0]
        ELSE LET key == cache_key(lat)
                 got == cache_get(wc, key, t)
             IN  IF got.ret # None
                     THEN [ret |-> got.ret, cache |-> got.cache, upstream |-> 0]
                     ELSE IF resp = HttpError
                              THEN [ret |-> None, cache |-> got.cache, upstream |-> 1]
                              ELSE [ret |-> resp,
                                    cache |-> cache_set(got.cache, key, resp, WeatherTTL, t),
                                    upstream |-> 1]

\* The elevation the provider reports at a position, by tr
ElevationAt(tr, p) ==
    CASE tr = "flat"  -> 100
      [] tr = "ramp"  -> 100 + (p \div 5)
      [] tr = "cliff" -> IF p < 1000 THEN 100 ELSE 600

\* fetch_elevations_sampled with the provider answering er ("OK", a
\* status other than OK, or HttpError) to every batch: the dict from index
\* in `points` to elevation, and the number of upstream requests
fetch_elevations_sampled(points, has_key, tr, er) ==
    IF ~has_key \/ Len(points) = 0
        THEN [elevs |-> EmptyDict, upstream |-> 0]
        ELSE [elevs |-> IF er = "OK"
                            THEN [i \in 0..(Len(points) - 1) |->
                                      ElevationAt(tr, At(points, i))]
                            ELSE EmptyDict,
              upstream |-> (Len(points) + ElevBatchSize - 1) \div ElevBatchSize]

(***************************************************************************)
(* Penalties                                                               *)
(***************************************************************************)
\* What the weather provider answers for a position, by the weather of the day
WeatherAt(day, lat) ==
    CASE day = "down"  -> HttpError
      [] day = "clear" -> "clear"
      [] day = "rain"  -> "rain"
      [] day = "rain_minus3" -> "rain_minus3"
      [] day = "garbled" -> "weather_empty"
      [] day = "storm_north" -> IF lat >= 5000 THEN "thunderstorm" ELSE "clear"

\* weather_penalty_from_response for a payload of the given condition class,
\* with calm wind and full visibility; "rain" has no rain volume and
\* "rain_minus3" is main "Rain" with {"rain": {"1h": -3.0}}, which
\* 450.0 + (rain * 200.0) charges -150
weather_penalty_from_response(w) ==
    CASE w = "thunderstorm" -> 1000 * ScoreUnit
      [] w = "rain"         -> 450 * ScoreUnit
      [] w = "rain_minus3"  -> (450 + ((-3) * 200)) * ScoreUnit
      [] w = "clouds"       -> 20 * ScoreUnit
      [] OTHER              -> 0

\* whether weather_penalty_from_response raises on the payload:
\* "weather_empty" is {"weather": []}, on which w["weather"][0] is an
\* IndexError
weather_penalty_raises(w) == w = "weather_empty"

\* slope_penalty_from_elevations; the bands are tan(12), tan(8) and tan(4
\* degrees) in 1/100000
slope_penalty_from_elevations(elev1, elev2, dist_m) ==
    IF elev1 = <<>> \/ elev2 = <<>> \/ dist_m <= 0
        THEN 0
        ELSE LET rise == Abs(elev2[1] - elev1[1])
             IN  IF rise * 100000 >= 21256 * dist_m THEN 500 * ScoreUnit
                 ELSE IF rise * 100000 >= 14054 * dist_m THEN 250 * ScoreUnit
                 ELSE IF rise * 100000 >= 6993 * dist_m THEN 100 * ScoreUnit
                 ELSE 0

\* a closure radius that leaves out the points exactly on it
manual_closure_penalty_strict(lat, cls) ==
    IF \E j \in DOMAIN cls : haversine_m(lat, cls[j]) < CLOSURE_RADIUS_M
        THEN 1200 * ScoreUnit
        ELSE 0

\* a closure that costs as much as 1.2 km of road
manual_closure_penalty_light(lat, cls) ==
    IF \E j \in DOMAIN cls : haversine_m(lat, cls[j]) <= CLOSURE_RADIUS_M
        THEN 12 * ScoreUnit
        ELSE 0

manual_closure_penalty(lat, cls) ==
    IF \E j \in DOMAIN cls : haversine_m(lat, cls[j]) <= CLOSURE_RADIUS_M
        THEN 1200 * ScoreUnit
        ELSE 0

level_penalty(lvl) ==
    IF lvl = "high" THEN 1200 * ScoreUnit
    ELSE IF lvl = "medium" THEN 300 * ScoreUnit
    ELSE 50 * ScoreUnit

\* the indices of the zones of RISK_ZONES that contain the point, in order
RECURSIVE zones_matching(_, _, _)
zones_matching(zones, j, lat) ==
    IF j > Len(zones)
        THEN <<>>
        ELSE (IF haversine_m(lat, zones[j].center) <= zones[j].radius_m
                  THEN <<j>> ELSE <<>>)
             \o zones_matching(zones, j + 1, lat)

\* the penalty of the worst matching zone alone
RECURSIVE sum_penalties_max(_, _, _)
sum_penalties_max(zones, idx, k) ==
    IF k > Len(idx) THEN 0
    ELSE Max(level_penalty(zones[idx[k]].risk_level),
             sum_penalties_max(zones, idx, k + 1))

RECURSIVE sum_penalties(_, _, _)
sum_penalties(zones, idx, k) ==
    IF k > Len(idx) THEN 0
    ELSE level_penalty(zones[idx[k]].risk_level) + sum_penalties(zones, idx, k + 1)

risk_penalty_at_point(lat, zones) ==
    LET idx == zones_matching(zones, 1, lat)
    IN  [penalty |-> sum_penalties(zones, idx, 1),
         matched |-> [k \in DOMAIN idx |->
                         [id |-> zones[idx[k]].riskzone_id,
                          level |-> zones[idx[k]].risk_level]]]

(***************************************************************************)
(* Cost model                                                              *)
(***************************************************************************)
\* densified.index(p): the first index that holds p
IndexOf(s, p) == (CHOOSE i \in DOMAIN s : s[i] = p /\ \A j \in DOMAIN s : j < i => s[j] # p) - 1

\* elev_map.get(i)
DictGet(d, i) == IF i \in DOMAIN d THEN <<d[i]>> ELSE <<>>

\* One pass of the loop over the densified path, for segment i.  env is the
\* world of the request: the time, the credentials, the weather of the day
\* and RISK_ZONES (empty for the core module, which has no risk zones).
\* The pass in which weather_penalty_from_response raises ends the loop:
\* it leaves the weather cache as fetch_weather wrote it and charges nothing.
score_segment(acc, i, dens, sampled_indices, elev_map, cls, env) ==
    IF acc.raised THEN acc ELSE
    LET lat1 == At(dens, i)
        lat2 == At(dens, i + 1)
        dist_m == haversine_m(lat1, lat2)
        midlat == (lat1 + lat2) \div 2
        look == (i \in sampled_indices) \/ ((i + 1) \in sampled_indices)
        w == IF look
                 THEN fetch_weather(acc.cache, midlat, env.now, env.owkey,
                                    WeatherAt(env.wx, midlat))
                 ELSE [ret |-> None, cache |-> acc.cache, upstream |-> 0]
        weather_pen == IF w.ret # None THEN weather_penalty_from_response(w.ret) ELSE 0
        slope_pen == slope_penalty_from_elevations(DictGet(elev_map, i),
                                                   DictGet(elev_map, i + 1), dist_m)
        closure_pen == Max(manual_closure_penalty(lat1, cls),
                           manual_closure_penalty(lat2, cls))
        base_cost == dist_m * (ScoreUnit \div 100)
        risk_info == risk_penalty_at_point(midlat, env.zones)
        seg_cost == base_cost + weather_pen + slope_pen + closure_pen + risk_info.penalty
    IN  IF w.ret # None /\ weather_penalty_raises(w.ret)
        THEN [acc EXCEPT !.raised = TRUE, !.cache = w.cache,
                         !.weather_calls = acc.weather_calls + w.upstream]
        ELSE
        [total_score |-> acc.total_score + seg_cost,
         raised |-> FALSE,
         closed_segments |-> IF closure_pen > 0
                                 THEN Append(acc.closed_segments, midlat)
                                 ELSE acc.closed_segments,
         risk_hits |-> acc.risk_hits \o
                           [k \in DOMAIN risk_info.matched |->
                               [lat |-> midlat, zone |-> risk_info.matched[k]]],
         cache |-> w.cache,
         weather_calls |-> acc.weather_calls + w.upstream,
         segments |-> Append(acc.segments,
                             [looked |-> look, weather |-> weather_pen,
                              slope |-> slope_pen, closure |-> closure_pen,
                              risk |-> risk_info.penalty, base |-> base_cost])]

\* the passes of the loop for segments lo..hi, in order: the passes up to
\* the middle have run, and left their accumulators, when the rest start
RECURSIVE score_loop(_, _, _, _, _, _, _, _)
score_loop(acc, lo, hi, dens, sampled_indices, elev_map, cls, env) ==
    IF lo > hi
        THEN acc
        ELSE IF lo = hi
            THEN score_segment(acc, lo, dens, sampled_indices, elev_map, cls, env)
            ELSE LET mid == (lo + hi) \div 2
                     done == score_loop(acc, lo, mid, dens, sampled_indices,
                                        elev_map, cls, env)
                 IN  IF Len(done.segments) = mid + 1
                         THEN score_loop(done, mid + 1, hi, dens, sampled_indices,
                                         elev_map, cls, env)
                         ELSE done

\* score_route_option with the weather cache wc: what it returns, the
\* weather cache it leaves, and what each segment was charged; with
\* `raised` it returned nothing, and the other fields are its locals when the
\* exception left it
score_route_option(coords, cls, wc, env) ==
    LET dens == densify_path(coords, SAMPLE_DISTANCE_M)
        smp == sample_route_points(dens, MAX_SAMPLES)
        sampled_indices == {IndexOf(dens, smp[k]) : k \in DOMAIN smp}
        el == fetch_elevations_sampled(smp, env.gkey, env.terrain, env.eresp)
        acc == score_loop([total_score |-> 0, raised |-> FALSE,
                           closed_segments |-> <<>>,
                           risk_hits |-> <<>>, cache |-> wc, weather_calls |-> 0,
                           segments |-> <<>>],
                          0, Len(dens) - 2, dens, sampled_indices, el.elevs, cls, env)
    IN  [total_score |-> acc.total_score + 1,
         raised |-> acc.raised,
         closed_segments |-> acc.closed_segments,
         risk_hits |-> acc.risk_hits,
         densified_len |-> Len(dens),
         cache |-> acc.cache,
         weather_calls |-> acc.weather_calls,
         elevation_calls |-> el.upstream,
         segments |-> acc.segments,
         densified |-> dens,
         sampled |-> smp]

(***************************************************************************)
(* Route helpers                                                           *)
(***************************************************************************)
\* An encoded polyline is the list of its points (the precision of the
\* encoding, 0.00001 degree, is that of the metre grid), or a string that
\* polyline.decode rejects.
polyline_encode(coords) == [valid |-> TRUE, pts |-> coords]

coords_polyline_to_latlon(poly) == IF poly.valid THEN poly.pts ELSE <<>>

\* the answer of the provider to one request: r.json().get("routes", []), or
\* the exception of requests.get / raise_for_status
RECURSIVE concat_answers(_, _)
concat_answers(answers, k) ==
    IF k > Len(answers)
        THEN <<>>
        ELSE (IF answers[k].ok THEN answers[k].routes ELSE <<>>)
             \o concat_answers(answers, k + 1)

\* fetch_osrm_routes of dynamic_route_optimized.py: the primary request, then
\* one request through each of the four offset waypoints
fetch_osrm_routes(answers) == concat_answers(answers, 1)

\* fetch_osrm_routes of core/dynamic_router.py: one request
core_fetch_osrm_routes(answers) ==
    IF answers[1].ok THEN answers[1].routes ELSE <<>>

\* the synthetic straight-line route of dynamic_reroute_json; the duration
\* is in fifteenths of a second
synthetic_route_unclamped(s_lat, e_lat) ==
    [geometry |-> polyline_encode([k \in 1..(FallbackSteps + 1) |->
                      s_lat + (((e_lat - s_lat) * (k - 1)) \div FallbackSteps)]),
     distance |-> haversine_m(s_lat, e_lat),
     duration |-> (haversine_m(s_lat, e_lat) * 15) \div CruiseSpeed]

synthetic_route(s_lat, e_lat) ==
    [geometry |-> polyline_encode([k \in 1..(FallbackSteps + 1) |->
                      s_lat + (((e_lat - s_lat) * (k - 1)) \div FallbackSteps)]),
     distance |-> haversine_m(s_lat, e_lat),
     duration |-> Max(15, (haversine_m(s_lat, e_lat) * 15) \div CruiseSpeed)]

\* closure_points.split(";"): the segments that parse as "lat,lon"
RECURSIVE parse_closures(_, _)
parse_closures(segs, k) ==
    IF k > Len(segs)
        THEN <<>>
        ELSE (IF segs[k].numeric THEN <<segs[k].lat>> ELSE <<>>)
             \o parse_closures(segs, k + 1)

(***************************************************************************)
(* Selector                                                                *)
(***************************************************************************)
\* scored_options.append({...}), and the weather cache the scoring left
add_option(acc, r, coords, scr) ==
    [options |-> Append(acc.options,
                        [score |-> scr.total_score,
                         closed_segments |-> scr.closed_segments,
                         risk_hits |-> scr.risk_hits,
                         coords |-> coords,
                         distance |-> r.distance,
                         duration |-> r.duration,
                         densified_len |-> scr.densified_len]),
     cache |-> scr.cache]

\* a loop that gives up at the first route that does not decode
RECURSIVE score_routes_abort(_, _, _, _, _, _)
score_routes_abort(routes, k, cls, acc, env, with_risk) ==
    IF k > Len(routes)
        THEN acc
        ELSE IF Len(coords_polyline_to_latlon(routes[k].geometry)) = 0
            THEN acc
            ELSE score_routes_abort(routes, k + 1, cls,
                     add_option(acc, routes[k],
                         coords_polyline_to_latlon(routes[k].geometry),
                         score_route_option(
                             coords_polyline_to_latlon(routes[k].geometry), cls,
                             acc.cache,
                             IF with_risk THEN env ELSE [env EXCEPT !.zones = <<>>])),
                     env, with_risk)

\* the loop `for r in routes`: the options scored so far and the weather
\* cache; with_risk is FALSE for the core module, which has no risk zones
RECURSIVE score_routes(_, _, _, _, _, _)
score_routes(routes, k, cls, acc, env, with_risk) ==
    IF k > Len(routes)
        THEN acc
        ELSE IF Len(coords_polyline_to_latlon(routes[k].geometry)) = 0
            THEN score_routes(routes, k + 1, cls, acc, env, with_risk)
            ELSE score_routes(routes, k + 1, cls,
                     add_option(acc, routes[k],
                         coords_polyline_to_latlon(routes[k].geometry),
                         score_route_option(
                             coords_polyline_to_latlon(routes[k].geometry), cls,
                             acc.cache,
                             IF with_risk THEN env ELSE [env EXCEPT !.zones = <<>>])),
                     env, with_risk)

\* list.sort(key=lambda x: x["score"]) is stable: an option goes behind the
\* options of the same score that came before it
RECURSIVE insert_by_score(_, _, _)
insert_by_score(sorted, x, k) ==
    IF k > Len(sorted) \/ sorted[k].score > x.score
        THEN SubSeq(sorted, 1, k - 1) \o <<x>> \o SubSeq(sorted, k, Len(sorted))
        ELSE insert_by_score(sorted, x, k + 1)

RECURSIVE insert_before_equal(_, _, _)
insert_before_equal(sorted, x, k) ==
    IF k > Len(sorted) \/ sorted[k].score >= x.score
        THEN SubSeq(sorted, 1, k - 1) \o <<x>> \o SubSeq(sorted, k, Len(sorted))
        ELSE insert_before_equal(sorted, x, k + 1)

RECURSIVE sort_from(_, _, _)
sort_from(opts, k, sorted) ==
    IF k > Len(opts) THEN sorted
    ELSE sort_from(opts, k + 1, insert_by_score(sorted, opts[k], 1))

RECURSIVE sort_unstable_from(_, _, _)
sort_unstable_from(opts, k, sorted) ==
    IF k > Len(opts) THEN sorted
    ELSE sort_unstable_from(opts, k + 1, insert_before_equal(sorted, opts[k], 1))

sort_by_score_unstable(opts) == sort_unstable_from(opts, 1, <<>>)

sort_by_score(opts) == sort_from(opts, 1, <<>>)

\* a result that reports the distance and duration of the provider's first
\* route next to the geometry and score of the best option
reroute_result_first_route(routes, sorted, cls, with_risk) ==
    [original_route |-> coords_polyline_to_latlon(routes[1].geometry),
     chosen_route |-> sorted[1].coords,
     reroute |-> sorted[1].coords,
     closures |-> cls,
     closed_segments |-> sorted[1].closed_segments,
     risk_hits |-> sorted[1].risk_hits,
     eta_seconds |-> routes[1].duration,
     distance_m |-> routes[1].distance,
     score |-> sorted[1].score]

\* the result both engines build from the sorted options
reroute_result(routes, sorted, cls, with_risk) ==
    LET best == sorted[1]
        original_coords == coords_polyline_to_latlon(routes[1].geometry)
        common == [original_route |-> original_coords,
                   chosen_route |-> best.coords,
                   reroute |-> best.coords,
                   closures |-> cls,
                   closed_segments |-> best.closed_segments,
                   eta_seconds |-> best.duration,
                   distance_m |-> best.distance,
                   score |-> best.score]
    IN  IF with_risk
            THEN [original_route |-> common.original_route,
                  chosen_route |-> common.chosen_route,
                  reroute |-> common.reroute,
                  closures |-> common.closures,
                  closed_segments |-> common.closed_segments,
                  risk_hits |-> best.risk_hits,
                  eta_seconds |-> common.eta_seconds,
                  distance_m |-> common.distance_m,
                  score |-> common.score]
            ELSE common

\* an engine that, with no option scored, answers with the first route as it
\* came
engine_outcome_unscored(routes, cls, scored, with_risk) ==
    [response |-> IF Len(scored.options) = 0
                      THEN [error |-> "no valid route options",
                            status_code |-> 500,
                            original_route |-> routes[1].geometry.pts,
                            distance_m |-> routes[1].distance,
                            eta_seconds |-> routes[1].duration]
                      ELSE reroute_result(routes, sort_by_score(scored.options),
                                          cls, with_risk),
     routes |-> routes,
     scored_options |-> scored.options,
     cache |-> scored.cache]

\* what either engine does with the options it scored: the response, the
\* options before the sort and the weather cache
engine_outcome(routes, cls, scored, with_risk) ==
    [response |-> IF Len(scored.options) = 0
                      THEN IF with_risk
                               THEN [error |-> "no valid route options",
                                     status_code |-> 500]
                               ELSE [error |-> "No valid route options"]
                      ELSE reroute_result(routes, sort_by_score(scored.options),
                                          cls, with_risk),
     routes |-> routes,
     scored_options |-> scored.options,
     cache |-> scored.cache]

\* the routes dynamic_reroute_json scores: the provider's, or the synthetic
\* straight line when there are none or `fast` is set
json_routes(s_lat, e_lat, is_fast, answers) ==
    IF ~is_fast /\ Len(fetch_osrm_routes(answers)) > 0
        THEN fetch_osrm_routes(answers)
        ELSE <<synthetic_route(s_lat, e_lat)>>

dynamic_reroute_json(s_lat, e_lat, segs, is_fast, answers, wc, env) ==
    engine_outcome(json_routes(s_lat, e_lat, is_fast, answers),
                   parse_closures(segs, 1),
                   score_routes(json_routes(s_lat, e_lat, is_fast, answers), 1,
                                parse_closures(segs, 1),
                                [options |-> <<>>, cache |-> wc], env, TRUE),
                   TRUE)

\* dynamic_reroute of core/dynamic_router.py, which is handed the closures
\* as a list
dynamic_reroute(s_lat, e_lat, cls, answers, wc, env) ==
    IF Len(core_fetch_osrm_routes(answers)) = 0
        THEN [response |-> [error |-> "No routes returned by OSRM"],
              routes |-> <<>>, scored_options |-> <<>>, cache |-> wc]
        ELSE engine_outcome(core_fetch_osrm_routes(answers), cls,
                            score_routes(core_fetch_osrm_routes(answers), 1, cls,
                                         [options |-> <<>>, cache |-> wc], env, FALSE),
                            FALSE)

(***************************************************************************)
(* Inputs of the model                                                     *)
(***************************************************************************)
SamplePoints == {0, 500, 1000}

SamplePaths == UNION {[1..n -> SamplePoints] : n \in 1..MaxPathLen}

TickStep == WeatherTTL \div 2

MaxTime == MaxTicks * TickStep

CacheKeys == {0, 4}

CacheValues == {"w1", "w2"}

CacheTTLs == {0, TickStep, WeatherTTL}

\* values of the environment variable WEATHER_CACHE_MINUTES
WeatherCacheSettings == {DefaultWeatherCacheMinutes, 10}

\* 0 and 400 share a weather key, 5000 has another
LookupPoints == {0, 400, 5000}

LookupKeys == {cache_key(p) : p \in LookupPoints}

WeatherAnswers == {"rain", "clear", HttpError}

\* two coordinates of one weather key
ThreadPoints == {0, 400}

ThreadAnswers == {"rain", HttpError}

Threads == 1..NumThreads

ElevationAnswers == {"OK", "DENIED", HttpError}

\* paths of 1, 1, 3, 6, 22 and 22 densified points; the last one is a loop
ScoreRoutes ==
    {<<0>>, <<0, 0>>, <<0, 400>>, <<0, 2000>>, <<0, 10000>>, <<0, 4600, 600, 0>>,
     <<0, 400, 0>>}

ScoreClosures == {<<>>, <<200>>, <<9000>>}

ZoneHigh == [riskzone_id |-> "Z1", center |-> 1000, radius_m |-> 500, risk_level |-> "high"]

ZoneLow == [riskzone_id |-> "Z2", center |-> 1200, radius_m |-> 2000, risk_level |-> "low"]

\* a high zone of 50 m around the first point of every route scored
ZonePin == [riskzone_id |-> "Z3", center |-> 0, radius_m |-> 50, risk_level |-> "high"]

\* a medium zone that overlaps ZoneHigh and ZoneLow
ZoneMid == [riskzone_id |-> "Z4", center |-> 700, radius_m |-> 400, risk_level |-> "medium"]

RiskTables ==
    {<<>>, <<ZoneHigh>>, <<ZonePin>>, <<ZoneHigh, ZoneLow>>, <<ZoneMid, ZoneHigh, ZoneLow>>}

Terrains == {"flat", "ramp", "cliff"}

Weathers == {"down", "clear", "rain", "rain_minus3", "garbled", "storm_north"}

ElevationQueries == {<<0>>, <<400>>, <<0, 5000>>}

\* routes the provider can answer with; durations in fifteenths of a second
RouteDirect ==
    [geometry |-> polyline_encode(<<0, 2000>>), distance |-> 2000, duration |-> 2400]

RouteTwin ==
    [geometry |-> polyline_encode(<<0, 1000, 2000>>), distance |-> 2050, duration |-> 2700]

RouteDetour ==
    [geometry |-> polyline_encode(<<0, -3000, 2000>>), distance |-> 8000, duration |-> 9000]

RouteMalformed ==
    [geometry |-> [valid |-> FALSE, pts |-> <<>>], distance |-> 2000, duration |-> 2400]

\* a route whose geometry is the empty string, which decodes to no point
RouteEmpty ==
    [geometry |-> polyline_encode(<<>>), distance |-> 2000, duration |-> 2400]

RequestFailed == [ok |-> FALSE, routes |-> <<>>]

Answer(rs) == [ok |-> TRUE, routes |-> rs]

PrimaryAnswers ==
    {RequestFailed, Answer(<<>>), Answer(<<RouteDirect>>),
     Answer(<<RouteDirect, RouteTwin>>), Answer(<<RouteTwin, RouteDirect>>),
     Answer(<<RouteMalformed, RouteDirect>>), Answer(<<RouteMalformed>>),
     Answer(<<RouteDirect, RouteEmpty>>)}

LatViaAnswers == {RequestFailed, Answer(<<>>), Answer(<<RouteDetour>>), Answer(<<RouteTwin>>)}

LonViaAnswers == {RequestFailed, Answer(<<RouteDetour>>)}

ProviderAnswers ==
    {<<p, a, b, c, d>> : p \in PrimaryAnswers, a \in LatViaAnswers,
                         b \in LatViaAnswers, c \in LonViaAnswers, d \in LonViaAnswers}

ProviderDown == <<RequestFailed, RequestFailed, RequestFailed, RequestFailed, RequestFailed>>

RequestPairs == {<<0, 0>>, <<0, 6>>, <<0, 2000>>}

\* the segments of closure_points: a "lat,lon" pair or text that is not one
ClosureInputs ==
    {<<>>, <<[numeric |-> TRUE, lat |-> 200]>>,
     <<[numeric |-> FALSE, lat |-> 0], [numeric |-> TRUE, lat |-> 200]>>}

\* the credentials and the weather of a request's day; the provider's
\* payloads are well-formed on these days
EngineWorlds == {<<FALSE, "clear">>, <<TRUE, "storm_north">>}

\* the direct routes of the selection scenario, all from position 0
SelectDirects == {<<0>>, <<0, 400>>, <<0, 2000>>, <<0, 4600>>}

\* the offset alternatives, all clear of every closure of SelectClosures
SelectBypasses ==
    {<<5000, 5200>>, <<5000, 9000>>, <<5000, 125000>>, <<5000, 125400>>,
     <<5000, 135000>>}

SelectClosures ==
    {<<[numeric |-> TRUE, lat |-> -1000]>>, <<[numeric |-> TRUE, lat |-> 200]>>}

RouteOf(coords) ==
    [geometry |-> polyline_encode(coords),
     distance |-> haversine_m(coords[1], coords[Len(coords)]),
     duration |-> haversine_m(coords[1], coords[Len(coords)])]

\* the direct route as the primary answer and the alternative either with it
\* or as the answer to the first via-waypoint request
SelectAnswers ==
    UNION {{<<Answer(<<RouteOf(d)>>), Answer(<<RouteOf(b)>>), RequestFailed,
              RequestFailed, RequestFailed>>,
            <<Answer(<<RouteOf(d), RouteOf(b)>>), RequestFailed, RequestFailed,
              RequestFailed, RequestFailed>>} :
           d \in SelectDirects, b \in SelectBypasses}

\* routes, closures and settings of the tuning parameters for the closure
\* cost of a segment
ClosureRoutes == {<<0, 0>>, <<0, 400>>, <<0, 2000>>, <<0, 6000>>}

ClosureLists == {<<>>, <<200>>, <<1500>>, <<3000>>, <<-1100>>, <<200, 3000>>}

SpacingSettings == {DefaultSampleDistanceM, 3000}

RadiusSettings == {DefaultClosureRadiusM, 200}

DensifyPoints == {0, 200, 500, 1000, 2300}

DensifyPaths == UNION {[1..n -> DensifyPoints] : n \in 0..MaxDensifyLen}

DensifySpacings == {300, 500}

(***************************************************************************)
(* The state of the parts a specification leaves alone                     *)
(***************************************************************************)
SampleIdle ==
    densified = <<>> /\ max_samples = 0 /\ sampled = <<>> /\ spacing_m = DefaultSampleDistanceM

CacheIdle == cache = EmptyDict /\ stored = [k \in CacheKeys |-> <<>>]

CallIdle == arg_key = 0 /\ ret = None

ModuleStart == weather_cache = EmptyDict /\ elevation_cache = EmptyDict

\* the tuning parameters with no environment variable set
TuningDefaults ==
    /\ SAMPLE_DISTANCE_M = DefaultSampleDistanceM
    /\ CLOSURE_RADIUS_M = DefaultClosureRadiusM
    /\ WEATHER_CACHE_MINUTES = DefaultWeatherCacheMinutes

ConfigIdle ==
    /\ OPENWEATHER_KEY = FALSE /\ GOOGLE_API_KEY = FALSE /\ RISK_ZONES = <<>>
    /\ TuningDefaults

WorldIdle == wx = "clear" /\ terrain = "flat" /\ eresp = "OK"

ScoreIdle == route_coords = <<>> /\ closures = <<>> /\ sc = <<>>

EngineIdle ==
    /\ start_lat = 0 /\ end_lat = 0 /\ closure_points = <<>> /\ fast = FALSE
    /\ osrm = <<>> /\ scored_options = <<>> /\ response = <<>>

\* the world of a request, as the cost model reads it
Env ==
    [now |-> now, owkey |-> OPENWEATHER_KEY, gkey |-> GOOGLE_API_KEY, wx |-> wx,
     terrain |-> terrain, eresp |-> eresp, zones |-> RISK_ZONES]

StubStart ==
    /\ upstream = 0
    /\ lookup_at = [k \in LookupKeys |-> -1]
    /\ fetch_at = [k \in LookupKeys |-> -1]
    /\ prev_lookup = -1
    /\ prev_fetch = -1
    /\ elev_seen = {}
    /\ known = FALSE

Sessions == 1..NumSessions

\* no websocket has connected yet
WsIdle ==
    /\ conns = <<>>
    /\ ws_pc = [ws \in Sessions |-> "new"]
    /\ ws_idx = [ws \in Sessions |-> 0]

\* no engine has been invoked
RunIdle ==
    run = [engine |-> "", fast |-> FALSE, pc |-> "idle", k |-> 0, routes |-> 0,
           cand |-> 0, segs |-> 0, seg |-> 0, scored |-> 0, requests |-> 0]

ThreadsIdle ==
    /\ pc = [t \in Threads |-> "idle"]
    /\ frame = [t \in Threads |-> [cache_key |-> 0, entry |-> <<>>, data |-> None]]

\* time.time() moves on between two calls
Tick ==
    /\ now + TickStep <= MaxTime
    /\ now' = now + TickStep
    /\ called' = "tick"
    /\ UNCHANGED <<sampleVars, cacheVars, callVars, configVars, moduleVars,
                   stubVars, threadVars, worldVars, wsVars, runVars, scoreVars, engineVars>>

(***************************************************************************)
(* Specification SpecSample: sample_route_points applied to any path       *)
(***************************************************************************)
InitSample ==
    /\ densified \in SamplePaths
    /\ max_samples \in 2..MaxSampleArg
    /\ sampled = <<>>
    /\ spacing_m = DefaultSampleDistanceM
    /\ called = ""
    /\ now = 0
    /\ CacheIdle /\ CallIdle /\ WsIdle /\ RunIdle /\ ConfigIdle /\ ModuleStart /\ StubStart
    /\ ThreadsIdle /\ WorldIdle /\ ScoreIdle /\ EngineIdle

Sample ==
    /\ called = ""
    /\ sampled' = sample_route_points(densified, max_samples)
    /\ called' = "sample_route_points"
    /\ UNCHANGED <<densified, max_samples, spacing_m, now, cacheVars, callVars, configVars,
                   moduleVars, stubVars, threadVars, worldVars, wsVars, runVars, scoreVars, engineVars>>

NextSample == Sample

SpecSample == InitSample /\ [][NextSample]_vars

\* C2: a path longer than max_samples is sampled to at most max_samples points.
C2_SampleAtMostMax ==
    (called = "sample_route_points" /\ Len(densified) > max_samples)
        => Len(sampled) <= max_samples

\* C3: the last sampled point is the last point of the path, for every
\* non-empty path, repeated coordinates included.
C3_SampleKeepsLast ==
    (called = "sample_route_points" /\ Len(densified) > 0)
        => Last(sampled) = Last(densified)

(***************************************************************************)
(* Specification SpecCache: cache_get and cache_set on one cache, called   *)
(* one after the other while time passes                                   *)
(***************************************************************************)
InitCache ==
    /\ called = ""
    /\ now = 0
    /\ SampleIdle /\ CacheIdle /\ CallIdle /\ WsIdle /\ RunIdle /\ ConfigIdle /\ ModuleStart /\ StubStart
    /\ ThreadsIdle /\ WorldIdle /\ ScoreIdle /\ EngineIdle

CacheSet ==
    \E k \in CacheKeys, v \in CacheValues, ttl \in CacheTTLs :
        /\ cache' = cache_set(cache, k, v, ttl, now)
        /\ stored' = [stored EXCEPT ![k] = <<[data |-> v, t0 |-> now, ttl |-> ttl]>>]
        /\ called' = "cache_set"
        /\ arg_key' = k
        /\ ret' = None
        /\ UNCHANGED <<sampleVars, now, configVars, moduleVars, stubVars, threadVars, worldVars, wsVars, runVars, scoreVars, engineVars>>

CacheGet ==
    \E k \in CacheKeys :
        LET r == cache_get(cache, k, now)
        IN  /\ cache' = r.cache
            /\ ret' = r.ret
            /\ called' = "cache_get"
            /\ arg_key' = k
            /\ UNCHANGED <<sampleVars, now, stored, configVars, moduleVars, stubVars,
                           threadVars, worldVars, wsVars, runVars, scoreVars, engineVars>>

NextCache == Tick \/ CacheSet \/ CacheGet

SpecCache == InitCache /\ [][NextCache]_vars

\* C8: cache_get returns the value of the last cache_set of the key while
\* now - t0 <= ttl, and past that it reports absent and leaves the key out
\* of the cache; the last cache_set is the one that counts (value and t0).
C8_CacheGetTTL ==
    (called = "cache_get" /\ stored[arg_key] # <<>>) =>
        LET s == stored[arg_key][1]
        IN  /\ (now - s.t0 <= s.ttl) =>
                  /\ ret = s.data
                  /\ arg_key \in DOMAIN cache
            /\ (now - s.t0 > s.ttl) =>
                  /\ ret = None
                  /\ arg_key \notin DOMAIN cache

\* C8 witness: a get exactly ttl seconds after the set still returns the value.
C8_Witness ==
    /\ called = "cache_get"
    /\ stored[arg_key] # <<>>
    /\ stored[arg_key][1].ttl > 0
    /\ now - stored[arg_key][1].t0 = stored[arg_key][1].ttl
    /\ ret = stored[arg_key][1].data

(***************************************************************************)
(* Specification SpecWeather: fetch_weather called again and again while   *)
(* time passes, against a call-counting stub provider                      *)
(***************************************************************************)
InitWeather ==
    /\ called = ""
    /\ SAMPLE_DISTANCE_M = DefaultSampleDistanceM
    /\ CLOSURE_RADIUS_M = DefaultClosureRadiusM
    /\ WEATHER_CACHE_MINUTES \in WeatherCacheSettings
    /\ now = 0
    /\ OPENWEATHER_KEY \in BOOLEAN
    /\ GOOGLE_API_KEY = FALSE
    /\ RISK_ZONES = <<>>
    /\ SampleIdle /\ CacheIdle /\ CallIdle /\ WsIdle /\ RunIdle /\ ModuleStart /\ StubStart
    /\ ThreadsIdle /\ WorldIdle /\ ScoreIdle /\ EngineIdle

FetchWeather ==
    \E lat \in LookupPoints, resp \in WeatherAnswers :
        LET r == fetch_weather(weather_cache, lat, now, OPENWEATHER_KEY, resp)
            k == cache_key(lat)
        IN  /\ weather_cache' = r.cache
            /\ ret' = r.ret
            /\ upstream' = r.upstream
            /\ called' = "fetch_weather"
            /\ arg_key' = k
            /\ prev_lookup' = lookup_at[k]
            /\ prev_fetch' = fetch_at[k]
            /\ lookup_at' = [lookup_at EXCEPT ![k] = now]
            /\ fetch_at' = IF r.upstream > 0 /\ resp # HttpError
                               THEN [fetch_at EXCEPT ![k] = now]
                               ELSE fetch_at
            /\ UNCHANGED <<sampleVars, cacheVars, now, configVars, elevation_cache,
                           elev_seen, known, threadVars, worldVars, wsVars, runVars, scoreVars, engineVars>>

NextWeather == Tick \/ FetchWeather

SpecWeather == InitWeather /\ [][NextWeather]_vars

\* C6 as stated: of two weather lookups of one key, the second issues no
\* upstream request within the TTL of the first and issues one after it.
C6_SecondLookupWithinTTL ==
    (called = "fetch_weather" /\ OPENWEATHER_KEY /\ prev_lookup >= 0) =>
        /\ (now - prev_lookup <= WeatherTTL) => upstream = 0
        /\ (now - prev_lookup > WeatherTTL) => upstream > 0

\* C6 amended: a weather lookup of a key the provider last answered at t0
\* issues no upstream request up to 300 s after t0 and issues one later.
C6_LookupWithinTTLOfFetch ==
    (called = "fetch_weather" /\ OPENWEATHER_KEY /\ prev_fetch >= 0) =>
        /\ (now - prev_fetch <= WeatherTTL) => upstream = 0
        /\ (now - prev_fetch > WeatherTTL) => upstream > 0

\* C6 witness: a lookup exactly 300 s after the provider's answer is served
\* from the cache, for a coordinate that shares the key.
C6_Witness ==
    /\ called = "fetch_weather"
    /\ OPENWEATHER_KEY
    /\ prev_fetch >= 0
    /\ now - prev_fetch = WeatherTTL
    /\ upstream = 0
    /\ ret = "rain"

\* C22: every entry of the weather cache is stored with the configured
\* lifetime, WEATHER_CACHE_MINUTES minutes.
C22_CachedTTLIsConfigured ==
    \A k \in DOMAIN weather_cache :
        weather_cache[k].ttl = WEATHER_CACHE_MINUTES * 60

(***************************************************************************)
(* Specification SpecElevation: fetch_elevations_sampled called again and  *)
(* again while time passes, against a call-counting stub provider          *)
(***************************************************************************)
InitElevation ==
    /\ called = ""
    /\ TuningDefaults
    /\ now = 0
    /\ OPENWEATHER_KEY = FALSE
    /\ GOOGLE_API_KEY \in BOOLEAN
    /\ RISK_ZONES = <<>>
    /\ wx = "clear"
    /\ terrain \in Terrains
    /\ eresp \in ElevationAnswers
    /\ SampleIdle /\ CacheIdle /\ CallIdle /\ WsIdle /\ RunIdle /\ ModuleStart /\ StubStart
    /\ ThreadsIdle /\ ScoreIdle /\ EngineIdle

FetchElevations ==
    \E points \in ElevationQueries :
        LET r == fetch_elevations_sampled(points, GOOGLE_API_KEY, terrain, eresp)
            keys == {cache_key(p) : p \in Range(points)}
        IN  /\ upstream' = r.upstream
            /\ called' = "fetch_elevations_sampled"
            /\ known' = (keys \subseteq elev_seen)
            /\ elev_seen' = IF r.upstream > 0 /\ eresp = "OK"
                                THEN elev_seen \cup keys
                                ELSE elev_seen
            /\ UNCHANGED <<sampleVars, cacheVars, callVars, now, configVars,
                           moduleVars, lookup_at, fetch_at, prev_lookup, prev_fetch,
                           threadVars, worldVars, wsVars, runVars, scoreVars, engineVars>>

NextElevation == Tick \/ FetchElevations

SpecElevation == InitElevation /\ [][NextElevation]_vars

\* C7: an elevation lookup of keys already fetched in this run issues no
\* upstream request.
C7_ElevationServedFromCache ==
    (called = "fetch_elevations_sampled" /\ GOOGLE_API_KEY /\ known)
        => upstream = 0

(***************************************************************************)
(* Specification SpecThreads: requests served by worker threads at the     *)
(* same time (the endpoints are plain `def`, which the server runs in a    *)
(* thread pool), each in fetch_weather on the shared weather_cache.  A     *)
(* thread switch can fall between any two statements of cache_get.         *)
(***************************************************************************)
InitThreads ==
    /\ called = ""
    /\ TuningDefaults
    /\ now = 0
    /\ OPENWEATHER_KEY = TRUE
    /\ GOOGLE_API_KEY = FALSE
    /\ RISK_ZONES = <<>>
    /\ SampleIdle /\ CacheIdle /\ CallIdle /\ WsIdle /\ RunIdle /\ ModuleStart /\ StubStart
    /\ ThreadsIdle /\ WorldIdle /\ ScoreIdle /\ EngineIdle

ThreadUnchanged ==
    UNCHANGED <<now, sampleVars, cacheVars, callVars, configVars, elevation_cache,
                stubVars, worldVars, wsVars, runVars, scoreVars, engineVars>>

\* fetch_weather: cache_key = f"{lat:.2f},{lon:.2f}"; cache_get(...) is entered
ThreadBegin(t) ==
    /\ pc[t] = "idle"
    /\ \E lat \in ThreadPoints :
          frame' = [frame EXCEPT ![t] =
                       [cache_key |-> cache_key(lat), entry |-> <<>>, data |-> None]]
    /\ pc' = [pc EXCEPT ![t] = "in"]
    /\ called' = "fetch_weather"
    /\ UNCHANGED weather_cache
    /\ ThreadUnchanged

\* cache_get: if key in cache
ThreadIn(t) ==
    /\ pc[t] = "in"
    /\ pc' = [pc EXCEPT ![t] =
                  IF frame[t].cache_key \in DOMAIN weather_cache THEN "read" ELSE "miss"]
    /\ called' = "cache_get"
    /\ UNCHANGED <<weather_cache, frame>>
    /\ ThreadUnchanged

\* cache_get: entry = cache[key], a KeyError when the key is gone
ThreadRead(t) ==
    /\ pc[t] = "read"
    /\ IF frame[t].cache_key \in DOMAIN weather_cache
           THEN /\ frame' = [frame EXCEPT ![t].entry = <<weather_cache[frame[t].cache_key]>>]
                /\ pc' = [pc EXCEPT ![t] = "expired"]
           ELSE /\ pc' = [pc EXCEPT ![t] = "KeyError"]
                /\ UNCHANGED frame
    /\ called' = "cache_get"
    /\ UNCHANGED weather_cache
    /\ ThreadUnchanged

\* cache_get: if not entry.is_expired(): return entry.data
ThreadExpired(t) ==
    /\ pc[t] = "expired"
    /\ IF ~is_expired(frame[t].entry[1], now)
           THEN /\ frame' = [frame EXCEPT ![t].data = frame[t].entry[1].data]
                /\ pc' = [pc EXCEPT ![t] = "done"]
           ELSE /\ pc' = [pc EXCEPT ![t] = "del"]
                /\ UNCHANGED frame
    /\ called' = "cache_get"
    /\ UNCHANGED weather_cache
    /\ ThreadUnchanged

\* cache_get: del cache[key], a KeyError when the key is gone; return None
ThreadDel(t) ==
    /\ pc[t] = "del"
    /\ IF frame[t].cache_key \in DOMAIN weather_cache
           THEN /\ weather_cache' = DictDel(weather_cache, frame[t].cache_key)
                /\ pc' = [pc EXCEPT ![t] = "miss"]
           ELSE /\ pc' = [pc EXCEPT ![t] = "KeyError"]
                /\ UNCHANGED weather_cache
    /\ called' = "cache_get"
    /\ UNCHANGED frame
    /\ ThreadUnchanged

\* fetch_weather: requests.get(url, timeout=3) ... data = r.json()
ThreadRequest(t) ==
    /\ pc[t] = "miss"
    /\ \E resp \in ThreadAnswers :
          IF resp = HttpError
              THEN /\ pc' = [pc EXCEPT ![t] = "done"]
                   /\ UNCHANGED frame
              ELSE /\ pc' = [pc EXCEPT ![t] = "set"]
                   /\ frame' = [frame EXCEPT ![t].data = resp]
    /\ called' = "requests.get"
    /\ UNCHANGED weather_cache
    /\ ThreadUnchanged

\* fetch_weather: cache_set(weather_cache, cache_key, data, ttl=300); return data
ThreadSet(t) ==
    /\ pc[t] = "set"
    /\ weather_cache' = cache_set(weather_cache, frame[t].cache_key, frame[t].data,
                                  WeatherTTL, now)
    /\ pc' = [pc EXCEPT ![t] = "done"]
    /\ called' = "cache_set"
    /\ UNCHANGED frame
    /\ ThreadUnchanged

\* the request is answered (with an error after a KeyError) and the thread
\* goes back to the pool
ThreadEnd(t) ==
    /\ pc[t] \in {"done", "KeyError"}
    /\ pc' = [pc EXCEPT ![t] = "idle"]
    /\ frame' = [frame EXCEPT ![t] = [cache_key |-> 0, entry |-> <<>>, data |-> None]]
    /\ called' = "return"
    /\ UNCHANGED weather_cache
    /\ ThreadUnchanged

NextThreads ==
    \/ Tick
    \/ \E t \in Threads :
          \/ ThreadBegin(t)
          \/ ThreadIn(t)
          \/ ThreadRead(t)
          \/ ThreadExpired(t)
          \/ ThreadDel(t)
          \/ ThreadRequest(t)
          \/ ThreadSet(t)
          \/ ThreadEnd(t)

SpecThreads == InitThreads /\ [][NextThreads]_vars

\* C5: whatever the interleaving, no cache_get call fails, and every key of
\* the cache holds one well-formed entry.
C5_CacheGetNeverFails ==
    /\ \A t \in Threads : pc[t] # "KeyError"
    /\ \A k \in DOMAIN weather_cache :
          /\ weather_cache[k].data \in ThreadAnswers \ {HttpError}
          /\ weather_cache[k].created_at <= now
          /\ weather_cache[k].ttl = WeatherTTL

\* C26: whatever the interleaving, a step removes a key from the weather
\* cache only if the entry the key held at that moment is expired; an entry
\* a concurrent cache_set has just written is never deleted.
C26_OnlyExpiredEntriesAreDeleted ==
    [][\A k \in DOMAIN weather_cache :
          (k \notin DOMAIN weather_cache') => is_expired(weather_cache[k], now)]_vars

(***************************************************************************)
(* Specification SpecScore: score_route_option applied to one route        *)
(***************************************************************************)
InitScore ==
    /\ called = ""
    /\ TuningDefaults
    /\ now = 0
    /\ OPENWEATHER_KEY \in BOOLEAN
    /\ GOOGLE_API_KEY \in BOOLEAN
    /\ RISK_ZONES \in RiskTables
    /\ wx \in Weathers
    /\ terrain \in Terrains
    /\ eresp \in ElevationAnswers
    /\ route_coords \in ScoreRoutes
    /\ closures \in ScoreClosures
    /\ sc = <<>>
    /\ SampleIdle /\ CacheIdle /\ CallIdle /\ WsIdle /\ RunIdle /\ ModuleStart /\ StubStart /\ ThreadsIdle
    /\ EngineIdle

ScoreRoute ==
    /\ called = ""
    /\ LET r == score_route_option(route_coords, closures, weather_cache, Env)
       IN  /\ sc' = r
           /\ weather_cache' = r.cache
    /\ called' = "score_route_option"
    /\ UNCHANGED <<now, sampleVars, cacheVars, callVars, configVars, elevation_cache,
                   stubVars, threadVars, worldVars, wsVars, runVars, route_coords, closures,
                   engineVars>>

NextScore == ScoreRoute

SpecScore == InitScore /\ [][NextScore]_vars

\* the slope cost C4 describes for segment i of the scored path: from the
\* elevations of the segment's own two endpoints when both are sampled points
\* and the elevations were fetched, else 0
OwnSlopeCost(i) ==
    LET a == At(sc.densified, i)
        b == At(sc.densified, i + 1)
    IN  IF /\ GOOGLE_API_KEY /\ eresp = "OK"
           /\ a \in Range(sc.sampled) /\ b \in Range(sc.sampled)
            THEN slope_penalty_from_elevations(<<ElevationAt(terrain, a)>>,
                                               <<ElevationAt(terrain, b)>>,
                                               haversine_m(a, b))
            ELSE 0

\* C4: the slope cost of every densified segment is computed from the
\* elevations of its own two endpoints, and is 0 when an endpoint is not a
\* sampled point.
C4_SlopeFromOwnEndpoints ==
    (called = "score_route_option") =>
        \A i \in 0..(Len(sc.densified) - 2) :
            sc.segments[i + 1].slope = OwnSlopeCost(i)


Scored == called = "score_route_option"

\* C13: with one high zone in the table and a route with a point at the
\* zone's center, the result lists a hazard hit within the zone's radius of
\* the center.
C13_HighZoneAtRoutePointIsHit ==
    (/\ Scored
     /\ Len(RISK_ZONES) = 1
     /\ RISK_ZONES[1].risk_level = "high"
     /\ \E k \in DOMAIN route_coords : route_coords[k] = RISK_ZONES[1].center) =>
        \E h \in DOMAIN sc.risk_hits :
            haversine_m(sc.risk_hits[h].lat, RISK_ZONES[1].center)
                <= RISK_ZONES[1].radius_m

\* what the segments from k on were charged for everything but weather
RECURSIVE SumWithoutWeather(_, _)
SumWithoutWeather(segs, k) ==
    IF k > Len(segs)
        THEN 0
        ELSE segs[k].base + segs[k].slope + segs[k].closure + segs[k].risk
             + SumWithoutWeather(segs, k + 1)

\* no lookup of the request can get weather data
WeatherUnavailable == ~OPENWEATHER_KEY \/ wx = "down"

\* C19: without weather credentials, or with every weather call failing,
\* each segment's weather penalty is 0, every segment of the densified path
\* is scored and the total is what the other costs add up to.
C19_WeatherFailsOpen ==
    (Scored /\ WeatherUnavailable) =>
        /\ Len(sc.segments) = Max(Len(sc.densified) - 1, 0)
        /\ \A k \in DOMAIN sc.segments : sc.segments[k].weather = 0
        /\ sc.total_score = SumWithoutWeather(sc.segments, 1) + 1

\* C19 witness: credentials set, every weather call failed, and a route of
\* several segments was scored with its closure charged
C19_Witness ==
    /\ Scored
    /\ OPENWEATHER_KEY /\ wx = "down"
    /\ sc.weather_calls > 1
    /\ Len(sc.segments) > 1
    /\ Len(sc.closed_segments) > 0
    /\ sc.total_score > 1

ZeroLength == \A k \in DOMAIN route_coords : route_coords[k] = route_coords[1]

NoHazard ==
    \A k \in DOMAIN sc.segments :
        /\ sc.segments[k].weather = 0 /\ sc.segments[k].slope = 0
        /\ sc.segments[k].closure = 0 /\ sc.segments[k].risk = 0

\* C20: total_score is strictly positive whatever the closures, risk zones
\* and provider responses, and is exactly the epsilon for a route of zero
\* length with no hazard.
C20_ScoreStrictlyPositive ==
    Scored =>
        /\ sc.total_score > 0
        /\ (ZeroLength /\ NoHazard) => sc.total_score = 1

\* the zones of RISK_ZONES whose radius contains the point
ZonesAt(lat) ==
    {j \in DOMAIN RISK_ZONES :
        haversine_m(lat, RISK_ZONES[j].center) <= RISK_ZONES[j].radius_m}

ZonesAtOfLevel(lat, lvl) == {j \in ZonesAt(lat) : RISK_ZONES[j].risk_level = lvl}

\* the midpoint of the k-th segment scored
MidOf(k) == (sc.densified[k] + sc.densified[k + 1]) \div 2

\* the number of containing zones over the segments from k on
RECURSIVE ZoneMatches(_)
ZoneMatches(k) ==
    IF k > Len(sc.segments)
        THEN 0
        ELSE Cardinality(ZonesAt(MidOf(k))) + ZoneMatches(k + 1)

\* C21: the risk penalty of a point is the sum of the level penalties (high
\* 1200, medium 300, low 50) of all the zones that contain it, and one hit
\* with the zone's identity is recorded per containing zone; overlapping
\* zones add up.
C21_RiskPenaltiesAddUp ==
    Scored =>
        /\ \A k \in DOMAIN sc.segments :
              /\ sc.segments[k].risk =
                     (1200 * Cardinality(ZonesAtOfLevel(MidOf(k), "high"))
                      + 300 * Cardinality(ZonesAtOfLevel(MidOf(k), "medium"))
                      + 50 * Cardinality(ZonesAtOfLevel(MidOf(k), "low"))) * ScoreUnit
              /\ \A j \in ZonesAt(MidOf(k)) :
                    \E h \in DOMAIN sc.risk_hits :
                        /\ sc.risk_hits[h].lat = MidOf(k)
                        /\ sc.risk_hits[h].zone.id = RISK_ZONES[j].riskzone_id
                        /\ sc.risk_hits[h].zone.level = RISK_ZONES[j].risk_level
        /\ Len(sc.risk_hits) = ZoneMatches(1)

\* C21 witness: a segment whose midpoint lies in a high, a medium and a low
\* zone is charged 1550
C21_Witness ==
    /\ Scored
    /\ \E k \in DOMAIN sc.segments :
          /\ Cardinality(ZonesAt(MidOf(k))) = 3
          /\ sc.segments[k].risk = 1550 * ScoreUnit
    /\ Len(sc.risk_hits) > 3

\* the positions of the densified path that sample_route_points selected:
\* all of them for a short path, else every step-th and, if it was appended,
\* the last
SelectedPositions ==
    LET n == Len(sc.densified)
        step == n \div MAX_SAMPLES
        strided == {i \in 0..(n - 1) : i % step = 0}
    IN  IF n <= MAX_SAMPLES
            THEN 0..(n - 1)
            ELSE strided \cup
                 (IF \E i \in strided : At(sc.densified, i) = Last(sc.densified)
                      THEN {} ELSE {n - 1})

\* C24: segment i gets a weather lookup at its midpoint exactly when position
\* i or position i+1 was selected by sample_route_points, and weather cost 0
\* otherwise, also on a path that holds a coordinate at several positions.
C24_WeatherLookupIffSampledPosition ==
    Scored =>
        \A i \in 0..(Len(sc.densified) - 2) :
            /\ sc.segments[i + 1].looked <=>
                   (i \in SelectedPositions \/ (i + 1) \in SelectedPositions)
            /\ ~sc.segments[i + 1].looked => sc.segments[i + 1].weather = 0

\* C29: when a weather call succeeds with a payload that carries no usable
\* data, score_route_option completes: it raises nothing, scores every
\* segment of the densified path and charges the affected segments weather
\* cost 0.
C29_UnusablePayloadCostsNothing ==
    (Scored /\ OPENWEATHER_KEY /\ wx = "garbled") =>
        /\ ~sc.raised
        /\ Len(sc.segments) = Max(Len(sc.densified) - 1, 0)
        /\ \A k \in DOMAIN sc.segments : sc.segments[k].weather = 0

(***************************************************************************)
(* Specification SpecEngine: one request to either engine                  *)
(***************************************************************************)
InitEngine ==
    /\ called = ""
    /\ TuningDefaults
    /\ now = 0
    /\ \E w \in EngineWorlds : OPENWEATHER_KEY = w[1] /\ wx = w[2]
    /\ GOOGLE_API_KEY = FALSE
    /\ RISK_ZONES = <<ZoneHigh>>
    /\ terrain = "flat"
    /\ eresp = "OK"
    /\ \E pair \in RequestPairs : start_lat = pair[1] /\ end_lat = pair[2]
    /\ closure_points \in ClosureInputs
    /\ \/ fast = FALSE /\ osrm \in ProviderAnswers
       \/ fast = TRUE /\ osrm \in {ProviderDown, <<Answer(<<RouteDirect>>), RequestFailed,
                                                 RequestFailed, RequestFailed, RequestFailed>>}
    /\ scored_options = <<>>
    /\ response = <<>>
    /\ SampleIdle /\ CacheIdle /\ CallIdle /\ WsIdle /\ RunIdle /\ ModuleStart /\ StubStart /\ ThreadsIdle
    /\ ScoreIdle

\* what a call leaves in response, scored_options and weather_cache
Returned(r) ==
    /\ response' = r.response
    /\ scored_options' = r.scored_options
    /\ weather_cache' = r.cache

DynamicRerouteJson ==
    /\ called = ""
    /\ Returned(dynamic_reroute_json(start_lat, end_lat, closure_points, fast,
                                         osrm, weather_cache, Env))
    /\ called' = "dynamic_reroute_json"
    /\ UNCHANGED <<now, sampleVars, cacheVars, callVars, configVars, elevation_cache,
                   stubVars, threadVars, worldVars, wsVars, runVars, scoreVars, start_lat, end_lat,
                   closure_points, fast, osrm>>

\* the routers hand dynamic_reroute the closures as a list of coordinates,
\* which holds numbers only
CoreDynamicReroute ==
    /\ called = ""
    /\ fast = FALSE
    /\ \A k \in DOMAIN closure_points : closure_points[k].numeric
    /\ Returned(dynamic_reroute(start_lat, end_lat,
                                    parse_closures(closure_points, 1), osrm,
                                    weather_cache, Env))
    /\ called' = "dynamic_reroute"
    /\ UNCHANGED <<now, sampleVars, cacheVars, callVars, configVars, elevation_cache,
                   stubVars, threadVars, worldVars, wsVars, runVars, scoreVars, start_lat, end_lat,
                   closure_points, fast, osrm>>

NextEngine == DynamicRerouteJson \/ CoreDynamicReroute

SpecEngine == InitEngine /\ [][NextEngine]_vars

EngineAnswered == called \in {"dynamic_reroute_json", "dynamic_reroute"}

IsError == "error" \in DOMAIN response

\* the least score among the options the engine scored
MinScore == CHOOSE m \in {scored_options[k].score : k \in DOMAIN scored_options} :
                \A k \in DOMAIN scored_options : m <= scored_options[k].score

\* the first option, in the order the provider gave them, with the least score
FirstBest == CHOOSE k \in DOMAIN scored_options :
                 /\ scored_options[k].score = MinScore
                 /\ \A j \in 1..(k - 1) : scored_options[j].score # MinScore

\* C1: the chosen route is the decoded candidate of minimum total_score, and
\* among candidates of equal minimum score the first in provider order.
C1_ChosenIsFirstMinimum ==
    (EngineAnswered /\ ~IsError) =>
        /\ Len(scored_options) > 0
        /\ response.score = MinScore
        /\ response.chosen_route = scored_options[FirstBest].coords
        /\ response.closed_segments = scored_options[FirstBest].closed_segments
        /\ response.distance_m = scored_options[FirstBest].distance

\* a tie for the minimum between candidates with different paths, settled for
\* the earlier one
C1_Witness ==
    /\ EngineAnswered /\ ~IsError
    /\ \E k \in DOMAIN scored_options :
          /\ k > FirstBest
          /\ scored_options[k].score = MinScore
          /\ scored_options[k].coords # scored_options[FirstBest].coords
    /\ response.chosen_route = scored_options[FirstBest].coords

\* the provider gave the core engine no route
CoreGotNoRoutes == called = "dynamic_reroute" /\ Len(core_fetch_osrm_routes(osrm)) = 0

\* C9: when the provider is unreachable or returns no routes, core
\* dynamic_reroute returns no error but the scored synthetic straight line
\* from start to end.
C9_CoreFallsBackToSynthetic ==
    CoreGotNoRoutes =>
        /\ ~IsError
        /\ response.chosen_route =
               coords_polyline_to_latlon(synthetic_route(start_lat, end_lat).geometry)

\* dynamic_reroute_json got no route from any of its requests
JsonGotNoRoutes ==
    called = "dynamic_reroute_json" /\ (fast \/ Len(fetch_osrm_routes(osrm)) = 0)

ReportsOption(k) ==
    /\ response.chosen_route = scored_options[k].coords
    /\ response.reroute = scored_options[k].coords
    /\ response.score = scored_options[k].score
    /\ response.distance_m = scored_options[k].distance
    /\ response.eta_seconds = scored_options[k].duration
    /\ response.closed_segments = scored_options[k].closed_segments
    /\ (called = "dynamic_reroute_json") =>
           response.risk_hits = scored_options[k].risk_hits

\* C27: in every successful result chosen_route, reroute, score, distance_m,
\* eta_seconds, closed_segments and risk_hits come from one and the same
\* scored candidate, and no scored candidate has a lower total_score.
C27_ResultFromOneCandidate ==
    (EngineAnswered /\ ~IsError) =>
        /\ \E k \in DOMAIN scored_options : ReportsOption(k)
        /\ \A j \in DOMAIN scored_options :
              response.score <= scored_options[j].score

\* C27 witness: the reported candidate is not the first one scored, and
\* differs from it in distance and duration
C27_Witness ==
    /\ EngineAnswered /\ ~IsError
    /\ Len(scored_options) > 1
    /\ ~ReportsOption(1)
    /\ response.distance_m # scored_options[1].distance
    /\ response.eta_seconds # scored_options[1].duration
    /\ \E k \in DOMAIN scored_options : ReportsOption(k)

\* C28: in every successful result original_route is non-empty and is the
\* geometry of a candidate scored in the request; with exactly one candidate
\* scored, chosen_route equals original_route.
C28_OriginalIsAScoredCandidate ==
    (EngineAnswered /\ ~IsError) =>
        /\ Len(response.original_route) > 0
        /\ \E k \in DOMAIN scored_options :
              response.original_route = scored_options[k].coords
        /\ (Len(scored_options) = 1) =>
               response.chosen_route = response.original_route

(***************************************************************************)
(* Specification SpecDensify: densify_path applied to any path and spacing *)
(***************************************************************************)
InitDensify ==
    /\ called = ""
    /\ now = 0
    /\ route_coords \in DensifyPaths
    /\ spacing_m \in DensifySpacings
    /\ densified = <<>> /\ max_samples = 0 /\ sampled = <<>>
    /\ closures = <<>> /\ sc = <<>>
    /\ CacheIdle /\ CallIdle /\ WsIdle /\ RunIdle /\ ConfigIdle /\ ModuleStart /\ StubStart
    /\ ThreadsIdle /\ WorldIdle /\ EngineIdle

Densify ==
    /\ called = ""
    /\ densified' = densify_path(route_coords, spacing_m)
    /\ called' = "densify_path"
    /\ UNCHANGED <<max_samples, sampled, spacing_m, now, cacheVars, callVars,
                   configVars, moduleVars, stubVars, threadVars, worldVars, wsVars, runVars,
                   scoreVars, engineVars>>

NextDensify == Densify

SpecDensify == InitDensify /\ [][NextDensify]_vars

\* the length of input segment j (from point j to point j+1 of route_coords)
SegLen(j) == haversine_m(route_coords[j], route_coords[j + 1])

\* the number of points C14 states for a segment of length len
StatedInserted(len) == IF len > spacing_m THEN len \div spacing_m ELSE 0

\* the number of points inserted into a segment of length len: one at least,
\* unless the segment has no length
Inserted(len) == IF len = 0 THEN 0 ELSE Max(1, len \div spacing_m)

\* where point j of route_coords stands in densified, given the number of
\* points inserted into each segment before it
RECURSIVE PlaceOf(_)
PlaceOf(j) == IF j = 1 THEN 1 ELSE PlaceOf(j - 1) + 1 + Inserted(SegLen(j - 1))

RECURSIVE StatedPlaceOf(_)
StatedPlaceOf(j) ==
    IF j = 1 THEN 1 ELSE StatedPlaceOf(j - 1) + 1 + StatedInserted(SegLen(j - 1))

\* C14 as stated: each segment longer than the spacing gets
\* floor(length/spacing) interpolated points, and a segment no longer than the
\* spacing gets none.
C14_InsertsFloorOrNone ==
    (called = "densify_path" /\ Len(route_coords) > 0) =>
        /\ Len(densified) = StatedPlaceOf(Len(route_coords))
        /\ \A j \in 1..Len(route_coords) :
              densified[StatedPlaceOf(j)] = route_coords[j]

\* C14 amended: each segment of positive length gets
\* max(1, floor(length/spacing)) interpolated points (one midpoint when it is
\* no longer than the spacing), and a segment of zero length gets none.
C14_InsertsAtLeastOne ==
    (called = "densify_path" /\ Len(route_coords) > 0) =>
        /\ Len(densified) = PlaceOf(Len(route_coords))
        /\ \A j \in 1..Len(route_coords) :
              densified[PlaceOf(j)] = route_coords[j]
        /\ \A j \in 1..(Len(route_coords) - 1) :
              \A k \in (PlaceOf(j) + 1)..(PlaceOf(j + 1) - 1) :
                  densified[k] \notin {route_coords[j], route_coords[j + 1]}

\* C14 witness: a segment shorter than the spacing that got its midpoint
\* next to a segment of several spacings
C14_Witness ==
    /\ called = "densify_path"
    /\ Len(route_coords) = 3
    /\ SegLen(1) > 0 /\ SegLen(1) < spacing_m
    /\ SegLen(2) >= 3 * spacing_m
    /\ Len(densified) = 3 + 1 + (SegLen(2) \div spacing_m)

\* the lengths of the parts input segment j was split into
PartsOf(j) ==
    {haversine_m(densified[k], densified[k + 1]) :
        k \in PlaceOf(j)..(PlaceOf(j + 1) - 1)}

\* C15: the output starts with the input's first point and ends with its
\* last, and each input segment of positive length is split into equal parts
\* (equal to the metre), none longer than the spacing.
C15_EndpointsKeptGapsBounded ==
    (called = "densify_path" /\ Len(route_coords) > 0) =>
        /\ Len(densified) > 0
        /\ densified[1] = route_coords[1]
        /\ Last(densified) = Last(route_coords)
        /\ \A j \in 1..(Len(route_coords) - 1) :
              SegLen(j) > 0 =>
                  /\ \A d \in PartsOf(j) : d <= spacing_m
                  /\ \A d, e \in PartsOf(j) : Abs(d - e) <= 1
        /\ \A k \in 1..(Len(densified) - 1) :
              haversine_m(densified[k], densified[k + 1]) <= spacing_m

\* C15 witness: a path whose last point equals its first, with a segment of
\* several spacings split into parts
C15_Witness ==
    /\ called = "densify_path"
    /\ Len(route_coords) = 3
    /\ route_coords[1] = route_coords[3]
    /\ SegLen(1) > 2 * spacing_m
    /\ Len(densified) > 5
    /\ densified[1] = Last(densified)


\* the candidate list the engine that answered worked on
EngineRoutes ==
    IF called = "dynamic_reroute_json"
        THEN json_routes(start_lat, end_lat, fast, osrm)
        ELSE core_fetch_osrm_routes(osrm)

\* the engine got its candidates from the provider, not from the fallback
FromProvider ==
    \/ called = "dynamic_reroute" /\ Len(core_fetch_osrm_routes(osrm)) > 0
    \/ called = "dynamic_reroute_json" /\ ~fast /\ Len(fetch_osrm_routes(osrm)) > 0

IsDecodable(r) == Len(coords_polyline_to_latlon(r.geometry)) > 0

Decodable == SelectSeq(EngineRoutes, IsDecodable)

\* C11: in every successful result that came from the provider,
\* original_route is the decoded first route of the provider's answer to the
\* direct start-to-end request, whichever requests succeeded.
C11_OriginalIsProviderDefault ==
    (EngineAnswered /\ ~IsError /\ FromProvider) =>
        /\ osrm[1].ok
        /\ Len(osrm[1].routes) > 0
        /\ response.original_route =
               coords_polyline_to_latlon(osrm[1].routes[1].geometry)

\* C16: a request whose closure input holds an entry that is not a pair of
\* numbers is answered with a validation error (a 4xx response), never routed.
C16_BadClosureIsValidationError ==
    (EngineAnswered /\ \E k \in DOMAIN closure_points : ~closure_points[k].numeric) =>
        /\ IsError
        /\ "status_code" \in DOMAIN response
        /\ response.status_code \in 400..499

\* C17: when one of several candidates does not decode and another does, the
\* request succeeds, exactly the decodable candidates are scored, in order,
\* and the chosen route is one of them.
C17_UndecodableCandidateSkipped ==
    (EngineAnswered /\ Len(EngineRoutes) > Len(Decodable) /\ Len(Decodable) > 0) =>
        /\ ~IsError
        /\ Len(scored_options) = Len(Decodable)
        /\ \A k \in DOMAIN scored_options :
              scored_options[k].coords =
                  coords_polyline_to_latlon(Decodable[k].geometry)
        /\ \E k \in DOMAIN Decodable :
              response.chosen_route =
                  coords_polyline_to_latlon(Decodable[k].geometry)

\* C17 witness: the first candidate does not decode and a later one is chosen
C17_Witness ==
    /\ EngineAnswered /\ ~IsError
    /\ Len(EngineRoutes) >= 3
    /\ ~IsDecodable(EngineRoutes[1])
    /\ Len(scored_options) = Len(EngineRoutes) - 1
    /\ response.chosen_route = <<0, 2000>>

\* C18: when the provider gave candidates and none decodes, the response is
\* an error object alone, with no route, distance, duration or score, and
\* nothing was scored.
C18_NoCandidateIsTerminalError ==
    (EngineAnswered /\ FromProvider /\ Len(Decodable) = 0) =>
        /\ IsError
        /\ DOMAIN response \subseteq {"error", "status_code"}
        /\ scored_options = <<>>

\* C18 witness: dynamic_reroute_json with one undecodable candidate answers
\* with status 500
C18_Witness ==
    /\ called = "dynamic_reroute_json"
    /\ FromProvider
    /\ Len(Decodable) = 0
    /\ IsError
    /\ response.status_code = 500


(***************************************************************************)
(* Specification SpecSelect: dynamic_reroute_json choosing between a       *)
(* direct route near a closure and an alternative clear of it, with no     *)
(* weather, elevation or risk-zone data                                    *)
(***************************************************************************)
InitSelect ==
    /\ called = ""
    /\ TuningDefaults
    /\ now = 0
    /\ OPENWEATHER_KEY = FALSE
    /\ wx = "clear"
    /\ GOOGLE_API_KEY = FALSE
    /\ RISK_ZONES = <<>>
    /\ terrain = "flat"
    /\ eresp = "OK"
    /\ start_lat = 0
    /\ end_lat = 2000
    /\ closure_points \in SelectClosures
    /\ fast = FALSE
    /\ osrm \in SelectAnswers
    /\ scored_options = <<>>
    /\ response = <<>>
    /\ SampleIdle /\ CacheIdle /\ CallIdle /\ WsIdle /\ RunIdle /\ ModuleStart /\ StubStart /\ ThreadsIdle
    /\ ScoreIdle

NextSelect == DynamicRerouteJson

SpecSelect == InitSelect /\ [][NextSelect]_vars

\* the two candidates, in the order the engine got them
DirectCoords == coords_polyline_to_latlon(fetch_osrm_routes(osrm)[1].geometry)

BypassCoords == coords_polyline_to_latlon(fetch_osrm_routes(osrm)[2].geometry)

RECURSIVE PathLength(_, _)
PathLength(coords, k) ==
    IF k >= Len(coords)
        THEN 0
        ELSE haversine_m(coords[k], coords[k + 1]) + PathLength(coords, k + 1)

\* the point is within the closure radius of a closure of the request
NearClosure(lat) ==
    \E j \in DOMAIN closure_points :
        /\ closure_points[j].numeric
        /\ haversine_m(lat, closure_points[j].lat) <= CLOSURE_RADIUS_M

\* the number of segments of the densified path with an end near a closure
ClosedCount(coords) ==
    Cardinality({k \in 1..(Len(densify_path(coords, SAMPLE_DISTANCE_M)) - 1) :
                    \/ NearClosure(densify_path(coords, SAMPLE_DISTANCE_M)[k])
                    \/ NearClosure(densify_path(coords, SAMPLE_DISTANCE_M)[k + 1])})

TouchesClosure(coords) ==
    \E k \in DOMAIN densify_path(coords, SAMPLE_DISTANCE_M) :
        NearClosure(densify_path(coords, SAMPLE_DISTANCE_M)[k])

\* the case of C12: a shorter direct candidate with a densified point near a
\* closure, and an alternative with no point near any
SelectCase ==
    /\ called = "dynamic_reroute_json"
    /\ TouchesClosure(DirectCoords)
    /\ ~TouchesClosure(BypassCoords)
    /\ PathLength(DirectCoords, 1) < PathLength(BypassCoords, 1)

\* C12 as stated: in that case the closure-free alternative is chosen,
\* however much longer it is.
C12_ClosureFreeAlwaysChosen ==
    SelectCase => response.chosen_route = BypassCoords

\* C12: in that case the closure-free alternative is chosen exactly when its
\* extra length, at 0.01 per metre, costs less than 1200 for each segment of
\* the direct candidate's densified path with an end near a closure;
\* otherwise the direct candidate is chosen.
C12_ClosureFreeChosenWhileCheaper ==
    SelectCase =>
        response.chosen_route =
            IF (PathLength(BypassCoords, 1) - PathLength(DirectCoords, 1))
                   * (ScoreUnit \div 100)
               < ClosedCount(DirectCoords) * 1200 * ScoreUnit
                THEN BypassCoords
                ELSE DirectCoords

\* C12 witness: the alternative is chosen over a shorter direct candidate
\* that has one closed segment
C12_Witness ==
    /\ SelectCase
    /\ ClosedCount(DirectCoords) = 1
    /\ response.chosen_route = BypassCoords
    /\ response.chosen_route # response.original_route

(***************************************************************************)
(* Specification SpecClosure: score_route_option under settings of         *)
(* SAMPLE_DISTANCE_M and CLOSURE_RADIUS_KM, with no weather, elevation or  *)
(* risk-zone data                                                          *)
(***************************************************************************)
InitClosure ==
    /\ called = ""
    /\ now = 0
    /\ OPENWEATHER_KEY = FALSE
    /\ GOOGLE_API_KEY = FALSE
    /\ RISK_ZONES = <<>>
    /\ SAMPLE_DISTANCE_M \in SpacingSettings
    /\ CLOSURE_RADIUS_M \in RadiusSettings
    /\ WEATHER_CACHE_MINUTES = DefaultWeatherCacheMinutes
    /\ route_coords \in ClosureRoutes
    /\ closures \in ClosureLists
    /\ sc = <<>>
    /\ SampleIdle /\ CacheIdle /\ CallIdle /\ WsIdle /\ RunIdle /\ ModuleStart /\ StubStart /\ ThreadsIdle
    /\ WorldIdle /\ EngineIdle

NextClosure == ScoreRoute

SpecClosure == InitClosure /\ [][NextClosure]_vars

\* a closure of the request lies on the k-th segment scored
ClosureOn(k) ==
    \E j \in DOMAIN closures :
        \/ sc.densified[k] <= closures[j] /\ closures[j] <= sc.densified[k + 1]
        \/ sc.densified[k + 1] <= closures[j] /\ closures[j] <= sc.densified[k]

\* an endpoint of the k-th segment is within the radius of a closure
EndpointNearClosure(k) ==
    \E j \in DOMAIN closures :
        \/ haversine_m(sc.densified[k], closures[j]) <= CLOSURE_RADIUS_M
        \/ haversine_m(sc.densified[k + 1], closures[j]) <= CLOSURE_RADIUS_M

IsClosed(k) == sc.segments[k].closure > 0

\* the midpoints of the segments charged for a closure, in path order
ClosedMidpoints ==
    LET idx == SelectSeq([k \in 1..Len(sc.segments) |-> k], IsClosed)
    IN  [h \in DOMAIN idx |-> MidOf(idx[h])]

\* C25 as stated: whatever the radius and the spacing, a closure anywhere on
\* a segment makes the segment's closure cost 1200 and records its midpoint;
\* the closure cost is 1200 exactly when an endpoint is within the radius.
C25_ClosureOnSegmentFlagsIt ==
    Scored =>
        \A k \in DOMAIN sc.segments :
            /\ ClosureOn(k) =>
                   /\ sc.segments[k].closure = 1200 * ScoreUnit
                   /\ MidOf(k) \in Range(sc.closed_segments)
            /\ sc.segments[k].closure =
                   IF EndpointNearClosure(k) THEN 1200 * ScoreUnit ELSE 0

\* C25: a segment's closure cost is 1200 exactly when an endpoint is within
\* the radius (inclusive) of a closure, else 0; closed_segments holds the
\* midpoints of exactly these segments; and a closure anywhere on a segment
\* that is at most twice the radius long flags the segment.
C25_ClosureOnShortSegmentFlagsIt ==
    Scored =>
        /\ \A k \in DOMAIN sc.segments :
              /\ sc.segments[k].closure =
                     IF EndpointNearClosure(k) THEN 1200 * ScoreUnit ELSE 0
              /\ (/\ ClosureOn(k)
                  /\ haversine_m(sc.densified[k], sc.densified[k + 1])
                         <= 2 * CLOSURE_RADIUS_M) =>
                     /\ sc.segments[k].closure = 1200 * ScoreUnit
                     /\ MidOf(k) \in Range(sc.closed_segments)
        /\ sc.closed_segments = ClosedMidpoints

\* C25 witness: under a spacing of 3000 m a closure lies inside a segment of
\* 2000 m, exactly the radius away from both endpoints, and the segment is
\* flagged
C25_Witness ==
    /\ Scored
    /\ SAMPLE_DISTANCE_M = 3000
    /\ \E k \in DOMAIN sc.segments :
          /\ ClosureOn(k)
          /\ haversine_m(sc.densified[k], sc.densified[k + 1]) = 2 * CLOSURE_RADIUS_M
          /\ sc.segments[k].closure = 1200 * ScoreUnit
          /\ MidOf(k) \in Range(sc.closed_segments)
    /\ \E k \in DOMAIN sc.segments : sc.segments[k].closure = 0


(***************************************************************************)
(* Specification SpecWs: the websocket endpoint /ws, each connection       *)
(* served by a coroutine of its own that registers in ws_manager.conns     *)
(***************************************************************************)
\* WSManager.connect after ws.accept(): self.conns.append(ws)
connect(cs, ws) == Append(cs, ws)

\* WSManager.disconnect: if ws in self.conns: self.conns.remove(ws)
disconnect(cs, ws) ==
    IF ws \in Range(cs)
        THEN LET first == CHOOSE i \in DOMAIN cs :
                              cs[i] = ws /\ \A j \in 1..(i - 1) : cs[j] # ws
             IN  SubSeq(cs, 1, first - 1) \o SubSeq(cs, first + 1, Len(cs))
        ELSE cs

\* what ws.receive_json() gives the handler: the client went away or sent no
\* JSON (it raises), a message without the coordinate fields, a message with
\* "abc" for a coordinate, or a message with four numbers
WsInitMessages == {"receive_raises", "fields_missing", "fields_text", "numbers"}

\* the number of points of the route dynamic_reroute_json gives the loop
WsRouteLens == 0..WsRouteLen

WsUnchanged ==
    UNCHANGED <<now, sampleVars, cacheVars, callVars, configVars, moduleVars,
                stubVars, threadVars, worldVars, runVars, scoreVars, engineVars>>

\* await ws_manager.connect(ws): ws.accept() raises out of the handler, or
\* the websocket is appended to conns
WsConnect(ws) ==
    /\ ws_pc[ws] = "new"
    /\ \E accepted \in BOOLEAN :
           IF accepted
               THEN /\ conns' = connect(conns, ws)
                    /\ ws_pc' = [ws_pc EXCEPT ![ws] = "receive"]
               ELSE /\ ws_pc' = [ws_pc EXCEPT ![ws] = "raised"]
                    /\ UNCHANGED conns
    /\ called' = "ws_manager.connect"
    /\ UNCHANGED ws_idx
    /\ WsUnchanged

\* init = await ws.receive_json(), with `except Exception: await ws.close();
\* return`, and the four float(init.get(...)) outside any try
WsReceive(ws) ==
    /\ ws_pc[ws] = "receive"
    /\ \E init \in WsInitMessages :
           ws_pc' = [ws_pc EXCEPT ![ws] =
                        CASE init = "receive_raises" -> "returned"
                          [] init \in {"fields_missing", "fields_text"} -> "raised"
                          [] OTHER -> "first_call"]
    /\ called' = "ws.receive_json"
    /\ UNCHANGED <<conns, ws_idx>>
    /\ WsUnchanged

\* idx = 0; chosen_route = []; the first dynamic_reroute_json call, whose
\* exception is caught and whose result is not used
WsFirstCall(ws) ==
    /\ ws_pc[ws] = "first_call"
    /\ ws_pc' = [ws_pc EXCEPT ![ws] = "loop"]
    /\ ws_idx' = [ws_idx EXCEPT ![ws] = 0]
    /\ called' = "dynamic_reroute_json"
    /\ UNCHANGED conns
    /\ WsUnchanged

\* one pass of `while True`, with the client taking the message or gone; an
\* exception ends the loop through `except Exception` and
\* `finally: ws_manager.disconnect(ws)`
WsUpdate(ws) ==
    /\ ws_pc[ws] = "loop"
    /\ \E answered \in BOOLEAN, res \in WsRouteLens, sent \in BOOLEAN :
           LET idx == IF answered /\ res > 0 /\ ws_idx[ws] < res - 1
                          THEN ws_idx[ws] + 1
                          ELSE ws_idx[ws]
               \* dynamic_reroute_json, route_coords[idx] or the send raises
               raises == \/ ~answered
                         \/ res > 0 /\ idx >= res
                         \/ ~sent
           IN  /\ ws_idx' = [ws_idx EXCEPT ![ws] = idx]
               /\ IF raises
                      THEN /\ conns' = disconnect(conns, ws)
                           /\ ws_pc' = [ws_pc EXCEPT ![ws] = "returned"]
                      ELSE UNCHANGED <<conns, ws_pc>>
    /\ called' = "ws_manager.send"
    /\ WsUnchanged

InitWs ==
    /\ called = ""
    /\ now = 0
    /\ SampleIdle /\ CacheIdle /\ CallIdle /\ WsIdle /\ RunIdle /\ ConfigIdle
    /\ ModuleStart /\ StubStart /\ ThreadsIdle /\ WorldIdle /\ ScoreIdle
    /\ EngineIdle

NextWs ==
    \E ws \in Sessions :
        WsConnect(ws) \/ WsReceive(ws) \/ WsFirstCall(ws) \/ WsUpdate(ws)

SpecWs == InitWs /\ [][NextWs]_vars

\* the handler of the websocket has returned or raised
HandlerOver(ws) == ws_pc[ws] \in {"returned", "raised"}

\* C30: once the handler of a websocket has returned or raised, for whatever
\* reason, the websocket is no longer in ws_manager.conns.
C30_EndedHandlerLeavesConns ==
    \A ws \in Sessions : HandlerOver(ws) => ws \notin Range(conns)


(***************************************************************************)
(* Specification SpecRun: one invocation of dynamic_reroute_json or of     *)
(* dynamic_reroute, one statement at a time, with every external request   *)
(* answered or failed within its timeout                                   *)
(***************************************************************************)
RunEngines == {"json", "core"}

\* the requests fetch_osrm_routes makes: the primary one and, in
\* dynamic_route_optimized.py, one for each via-waypoint offset
routing_requests(engine) ==
    IF engine = "json" THEN 1 + AlternativeOffsets ELSE 1

\* a fetch_osrm_routes that asks again when a request failed
after_request_retry(k, ok) == IF ok THEN k + 1 ELSE k

\* the number of requests done after the k-th is answered or has failed:
\* the exception is caught and the next statement follows
after_request(k, ok) == k + 1

\* more requests than any invocation makes
RunRequestCap ==
    (1 + AlternativeOffsets)
        + ((1 + AlternativeOffsets) * MaxRunRoutes * (1 + MaxRunSegments)) + 1

RunUnchanged ==
    UNCHANGED <<now, sampleVars, cacheVars, callVars, configVars, moduleVars,
                stubVars, threadVars, worldVars, wsVars, scoreVars, engineVars>>

\* the engine is called; with fast=True dynamic_reroute_json skips
\* fetch_osrm_routes
RunCall ==
    /\ run.pc = "idle"
    /\ \E engine \in RunEngines, is_fast \in BOOLEAN :
           /\ is_fast => engine = "json"
           /\ run' = [run EXCEPT !.engine = engine, !.fast = is_fast,
                                 !.pc = IF is_fast THEN "routes_in" ELSE "routing"]
    /\ called' = "engine"
    /\ RunUnchanged

\* fetch_osrm_routes: one requests.get(..., timeout=10), answered with some
\* routes or failed
RunRouteRequest ==
    /\ run.pc = "routing"
    /\ run.k < routing_requests(run.engine)
    /\ run.requests < RunRequestCap
    /\ \E ok \in BOOLEAN, n \in 0..MaxRunRoutes :
           run' = [run EXCEPT
                      !.k = after_request(run.k, ok),
                      !.routes = run.routes + (IF ok THEN n ELSE 0),
                      !.requests = run.requests + 1,
                      !.pc = IF after_request(run.k, ok) >= routing_requests(run.engine)
                                 THEN "routes_in"
                                 ELSE "routing"]
    /\ called' = "requests.get"
    /\ RunUnchanged

\* `if not routes`: dynamic_reroute returns its error, dynamic_reroute_json
\* builds the synthetic route or, when that raises, returns its 502; with
\* routes the scoring loop starts
RunRoutesIn ==
    /\ run.pc = "routes_in"
    /\ IF run.routes > 0
           THEN run' = [run EXCEPT !.pc = "scoring", !.cand = 1]
           ELSE IF run.engine = "core"
                    THEN run' = [run EXCEPT !.pc = "error"]
                    ELSE \E built \in BOOLEAN :
                             run' = IF built
                                        THEN [run EXCEPT !.pc = "scoring",
                                                         !.routes = 1, !.cand = 1]
                                        ELSE [run EXCEPT !.pc = "error"]
    /\ called' = "routes"
    /\ RunUnchanged

\* `for r in routes`: the geometry is decoded, an undecodable one is skipped;
\* score_route_option densifies the path and fetch_elevations_sampled posts
\* its one batch when it has credentials and points
RunCandidate ==
    /\ run.pc = "scoring"
    /\ run.cand <= run.routes
    /\ \E decoded \in BOOLEAN, nseg \in 0..MaxRunSegments, elev \in BOOLEAN :
           run' = IF decoded
                      THEN [run EXCEPT !.pc = "segments", !.segs = nseg, !.seg = 0,
                                       !.requests = run.requests
                                                      + (IF elev /\ nseg > 0 THEN 1 ELSE 0)]
                      ELSE [run EXCEPT !.cand = run.cand + 1]
    /\ called' = "score_route_option"
    /\ RunUnchanged

\* what the weather lookup of a segment does: none for an unsampled segment,
\* no request (no credentials, or a cached payload), a request that fails, a
\* request answered with a payload, or a payload, cached or fetched, that
\* weather_penalty_from_response raises on
RunWeatherOutcomes == {"none", "no_request", "failed", "payload", "cached_bad", "bad"}

\* `for i in range(len(densified)-1)`: one segment is scored
RunSegment ==
    /\ run.pc = "segments"
    /\ run.seg < run.segs
    /\ \E w \in RunWeatherOutcomes :
           run' = [run EXCEPT
                      !.seg = run.seg + 1,
                      !.requests = run.requests
                                     + (IF w \in {"failed", "payload", "bad"} THEN 1 ELSE 0),
                      !.pc = IF w \in {"cached_bad", "bad"} THEN "raised" ELSE "segments"]
    /\ called' = "fetch_weather"
    /\ RunUnchanged

\* score_route_option returns and scored_options.append(...) follows
RunScored ==
    /\ run.pc = "segments"
    /\ run.seg = run.segs
    /\ run' = [run EXCEPT !.pc = "scoring", !.cand = run.cand + 1,
                          !.scored = run.scored + 1]
    /\ called' = "scored_options.append"
    /\ RunUnchanged

\* after the loop: the error for no scored option, else the sorted options'
\* first as the result
RunReturn ==
    /\ run.pc = "scoring"
    /\ run.cand > run.routes
    /\ run' = [run EXCEPT !.pc = IF run.scored = 0 THEN "error" ELSE "result"]
    /\ called' = "return"
    /\ RunUnchanged

InitRun ==
    /\ called = ""
    /\ now = 0
    /\ SampleIdle /\ CacheIdle /\ CallIdle /\ WsIdle /\ RunIdle /\ ConfigIdle
    /\ ModuleStart /\ StubStart /\ ThreadsIdle /\ WorldIdle /\ ScoreIdle
    /\ EngineIdle

NextRun ==
    \/ RunCall
    \/ RunRouteRequest
    \/ RunRoutesIn
    \/ RunCandidate
    \/ RunSegment
    \/ RunScored
    \/ RunReturn

\* the interpreter keeps executing the invocation, and every external request
\* is answered or fails within its timeout
SpecRun == InitRun /\ [][NextRun]_vars /\ WF_vars(NextRun)

RunStarted == run.pc # "idle"

\* the requests of an invocation: the routing requests made so far, and for
\* each route one elevation batch and one weather lookup for each segment
RequestsBounded ==
    /\ run.k <= routing_requests(run.engine)
    /\ run.requests <= run.k + (run.routes * (1 + MaxRunSegments))

====
